---- MODULE Spec2Model ----
(***************************************************************************)
(* A model of the identity enforcement environment (net2/Identity.js) and  *)
(* of the docker based VPN client (DockerBaseVPNClient.js).                *)
(*                                                                         *)
(* External commands (ipset, iptables, redis, fs) succeed in the           *)
(* specifications below; every handler is one action unless the code       *)
(* suspends inside a loop whose iterations a property counts.              *)
(***************************************************************************)
EXTENDS Integers, Sequences, FiniteSets, TLC

VARIABLES
  upd,             \* the updateIPs calls in flight: call -> position and locals
  envCreatedMap,   \* Identity.js:36   instanceKey -> created?
  confFiles,       \* dnsmasq config files on disk: set of [path, content]
  ipsetCreated,    \* kernel sets that exist
  ipsetEntries,    \* kernel set name -> members
  vpnEnvCreated,   \* profiles whose VPNClient enforcement env exists
  _ips,            \* Identity._ips, the last applied address list
  registry,        \* redis set <namespace>:addresses:<uid>
  _profileId,      \* Identity._profileId
  chain,           \* rules of mangle/FW_RT_TAG_DEVICE_5
  policy,          \* Identity.policy
  _aclTimer,       \* Identity._aclTimer, the handle setTimeout returned
  timers,          \* the pending timeouts of the event loop
  now,             \* Date.now() / 1000
  timerHist,       \* every timeout scheduled so far, those that fired, those cleared
  subscriber,      \* Identity.subscriber is set (a notification channel exists)
  pendingSaves,    \* setPolicy calls suspended at await this.savePolicy()
  persistLog,      \* the savePolicy writes that completed, in order
  published,       \* the IdentityPolicy:Changed events published, in order
  isMain,          \* f.isMain()
  instances,       \* Identity.js:37   instanceKey -> the registered instance
  subscriptions,   \* the subscribeOnce registrations made, in order
  constructed,     \* every construction so far: its key, its object, what it returned
  offSets,         \* members of QOS_OFF, ACL_OFF and NO_DNS_BOOST
  lastToggle,      \* per kind, the most recent toggle call
  lastCall,        \* the most recent call and its arguments
  opLog,           \* the external commands the most recent call issued, in order
  calls,           \* number of calls made so far, saturating at MaxCalls
  localSubnets,    \* the IPv4 subnets of the gateway's interfaces (sysManager)
  allocPc,         \* _generateRamdomNetwork: "idle", "loop" or "returned"
  allocIndex,      \* its variable index
  allocResult,     \* the /24 it returned
  subnetFile,      \* content of <profileId>.subnet
  workCompose,     \* docker-compose.yaml of the working directory
  serviceUp,       \* docker-compose@<profileId> is started
  natRules,        \* source addresses masqueraded in FW_POSTROUTING
  wanRoutable,     \* host routes of table wan_routable
  startPc,         \* _start: "idle", "alloc", "poll", "delay" or "done"
  t,               \* the poll loop's counter
  startHist        \* what the current _start call did so far

timerVars == <<policy, _aclTimer, timers, now, timerHist>>
policyVars == <<subscriber, pendingSaves, persistLog, published>>
ctorVars == <<isMain, instances, subscriptions, constructed>>
toggleVars == <<offSets, lastToggle>>
identityVars == <<envCreatedMap, confFiles, ipsetCreated, ipsetEntries, vpnEnvCreated,
                  _ips, registry, _profileId, chain, timerVars, policyVars, ctorVars,
                  toggleVars, upd>>
historyVars == <<lastCall, opLog, calls>>
allocVars == <<localSubnets, allocPc, allocIndex, allocResult>>
dockerVars == <<subnetFile, workCompose, serviceUp, natRules, wanRoutable, startPc, t,
                startHist>>
vars == <<identityVars, historyVars, allocVars, dockerVars>>

----------------------------------------------------------------------------
(* Bounds and input domains *)

MaxLen == 2
MaxCalls == 2
MaxTime == 3
MaxTimers == 2
MaxSets == 2
MaxCtor == 3

Namespace == "ns"
UIDs == {"uidA", "uidB", "uidC"}     \* every uid is at most 12 characters long
Self == "uidA"                       \* the identity instance the instance methods act on
Profiles == {"P1", "P2", "P3"}
ProfileInputs == Profiles \cup {""}
VpnStates == {"true", "false", "null"}
Families == {4, 6}

None == [present |-> FALSE]
Some(v) == [present |-> TRUE, v |-> v]

Falsy(v) == v \in {"", "undefined"}
Bump(n) == IF n < MaxCalls THEN n + 1 ELSE n

----------------------------------------------------------------------------
(* Resource names *)

InstanceKey(uid) == <<Namespace, uid>>
PolicyKey(uid) == <<"policy", Namespace, uid>>
EnforcementIPsetName(uid, af) == <<"c", Namespace, uid, af>>
EnforcementDnsmasqGroupId(uid) == <<Namespace, uid>>
RedisSetName(uid) == <<Namespace, "addresses", uid>>
DnsmasqConfigPath(uid) == <<"dnsmasq", Namespace, uid, ".conf">>
RouteIpsetName(profileId) == <<"c_rt", profileId>>

IdentitySetNames == {EnforcementIPsetName(u, af) : u \in UIDs, af \in Families}

----------------------------------------------------------------------------
(* ensureCreateEnforcementEnv / destroyEnv *)

ConfContent(uid) ==
  [key |-> "redis-src-address-group", src |-> RedisSetName(uid),
   group |-> EnforcementDnsmasqGroupId(uid)]

WriteFile(files, path, content) ==
  {f \in files : f.path # path} \cup {[path |-> path, content |-> content]}

CreateCmd(uid, af) ==
  [tool |-> "ipset", op |-> "create", set |-> EnforcementIPsetName(uid, af)]

\* the commands one ensureCreateEnforcementEnv(uid) call issues
EnsureCreateNoGuardCmds(uid) ==
  << [tool |-> "fs", op |-> "writeFile", path |-> DnsmasqConfigPath(uid)],
     [tool |-> "dnsmasq", op |-> "scheduleRestart"],
     CreateCmd(uid, 4), CreateCmd(uid, 6) >>

EnsureCreateCmds(uid) ==
  << [tool |-> "fs", op |-> "writeFile", path |-> DnsmasqConfigPath(uid)],
     [tool |-> "dnsmasq", op |-> "scheduleRestart"] >>
  \o (IF envCreatedMap[InstanceKey(uid)] THEN <<>>
      ELSE << CreateCmd(uid, 4), CreateCmd(uid, 6) >>)

\* the state change of one ensureCreateEnforcementEnv(uid) call
EnsureCreateEffect(uid) ==
  /\ confFiles' = WriteFile(confFiles, DnsmasqConfigPath(uid), ConfContent(uid))
  /\ IF envCreatedMap[InstanceKey(uid)]
       THEN UNCHANGED <<ipsetCreated, envCreatedMap>>
       ELSE /\ ipsetCreated' = ipsetCreated
                 \cup {EnforcementIPsetName(uid, 4), EnforcementIPsetName(uid, 6)}
            /\ envCreatedMap' = [envCreatedMap EXCEPT ![InstanceKey(uid)] = TRUE]

EnsureCreateEnforcementEnv(uid) ==
  /\ EnsureCreateEffect(uid)
  /\ opLog' = EnsureCreateCmds(uid)
  /\ lastCall' = [op |-> "ensureCreateEnforcementEnv", uid |-> uid]
  /\ calls' = Bump(calls)
  /\ UNCHANGED <<ipsetEntries, vpnEnvCreated, _ips, registry, _profileId, chain>>
  /\ UNCHANGED <<allocVars, dockerVars, timerVars, policyVars, ctorVars, toggleVars, upd>>

FlushCmd(uid, af) ==
  [tool |-> "ipset", op |-> "flush", set |-> EnforcementIPsetName(uid, af)]

Flush(entries, name) ==
  IF name \in ipsetCreated THEN [entries EXCEPT ![name] = {}] ELSE entries

DestroyEnv(uid) ==
  /\ ipsetEntries' = Flush(Flush(ipsetEntries, EnforcementIPsetName(uid, 4)),
                           EnforcementIPsetName(uid, 6))
  /\ confFiles' = {f \in confFiles : f.path # DnsmasqConfigPath(uid)}
  /\ opLog' = << FlushCmd(uid, 4), FlushCmd(uid, 6),
                 [tool |-> "fs", op |-> "rm", path |-> DnsmasqConfigPath(uid)],
                 [tool |-> "fs", op |-> "rm", path |-> <<DnsmasqConfigPath(uid), "_*">>],
                 [tool |-> "dnsmasq", op |-> "scheduleRestart"] >>
  /\ lastCall' = [op |-> "destroyEnv", uid |-> uid]
  /\ calls' = Bump(calls)
  /\ UNCHANGED <<envCreatedMap, ipsetCreated, vpnEnvCreated, _ips, registry,
                 _profileId, chain>>
  /\ UNCHANGED <<allocVars, dockerVars, timerVars, policyVars, ctorVars, toggleVars, upd>>

----------------------------------------------------------------------------
(* ensureCreateEnforcementEnv when a step fails *)

EnvSteps == {"writeFile", "create4", "create6"}
EnvUIDs == {Self, "uidB"}

\* the step a command of ensureCreateEnforcementEnv(uid) stands for
StepName(uid, cmd) ==
  CASE cmd.op = "writeFile" -> "writeFile"
    [] cmd.op = "create" /\ cmd.set = EnforcementIPsetName(uid, 4) -> "create4"
    [] cmd.op = "create" /\ cmd.set = EnforcementIPsetName(uid, 6) -> "create6"
    [] OTHER -> "scheduleRestart"

RECURSIVE EnvIssuedUntilFailure(_, _, _)
EnvIssuedUntilFailure(uid, cmds, failed) ==
  IF cmds = <<>> THEN <<>>
  ELSE IF StepName(uid, Head(cmds)) \in failed THEN <<Head(cmds)>>
  ELSE <<Head(cmds)>> \o EnvIssuedUntilFailure(uid, Tail(cmds), failed)

\* the write and both creates carry a catch: every step is attempted
EnvIssued(uid, cmds, failed) == cmds

MarksCreatedOnSuccess(failed) == failed \cap {"create4", "create6"} = {}

\* Identity.js:107 is reached whatever the creates did
MarksCreated(failed) == TRUE

EnsureCreateFaulty(uid, failed) ==
  LET issued == EnvIssued(uid, EnsureCreateCmds(uid), failed)
      done == {StepName(uid, issued[i]) : i \in 1..Len(issued)} \ failed
  IN /\ confFiles' = IF "writeFile" \in done
                       THEN WriteFile(confFiles, DnsmasqConfigPath(uid), ConfContent(uid))
                       ELSE confFiles
     /\ ipsetCreated' = ipsetCreated
          \cup (IF "create4" \in done THEN {EnforcementIPsetName(uid, 4)} ELSE {})
          \cup (IF "create6" \in done THEN {EnforcementIPsetName(uid, 6)} ELSE {})
     /\ envCreatedMap' = IF ~envCreatedMap[InstanceKey(uid)] /\ MarksCreated(failed)
                           THEN [envCreatedMap EXCEPT ![InstanceKey(uid)] = TRUE]
                           ELSE envCreatedMap
     /\ opLog' = issued
     /\ lastCall' = [op |-> "ensureCreateEnforcementEnv", uid |-> uid, failed |-> failed,
                     outcome |-> "returned"]
     /\ calls' = Bump(calls)
     /\ UNCHANGED <<ipsetEntries, vpnEnvCreated, _ips, registry, _profileId, chain>>
     /\ UNCHANGED <<allocVars, dockerVars, timerVars, policyVars, ctorVars, toggleVars, upd>>

----------------------------------------------------------------------------
(* vpnClient *)

RouteJmp(profileId) == [target |-> "SET", mapSet |-> RouteIpsetName(profileId)]
ClearJmp == [target |-> "MARK", xmark |-> "0x0000/MASK_VC"]

Rule(af, jmp) ==
  [table |-> "mangle", chn |-> "FW_RT_TAG_DEVICE_5", fam |-> af,
   mdl |-> EnforcementIPsetName(Self, af), jmp |-> jmp, comment |-> PolicyKey(Self)]

ActiveRule(af, profileId) == Rule(af, RouteJmp(profileId))
NeutralizedRule(af) == Rule(af, ClearJmp)

IptCmd(op, rule) == [tool |-> "iptables", op |-> op, rule |-> rule]

\* Rule.toCmd: -A inserts the rule unless it is present, -D removes it if present
ExecRule(c, cmd) ==
  IF cmd.op = "-A" THEN c \cup {cmd.rule} ELSE c \ {cmd.rule}

RECURSIVE ApplyRuleCmds(_, _)
ApplyRuleCmds(c, cmds) ==
  IF cmds = <<>> THEN c
  ELSE ApplyRuleCmds(ExecRule(c, Head(cmds)), Tail(cmds))

MigrationActiveOnlyCmds(prev, profileId) ==
  IF ~Falsy(prev) /\ profileId # prev
    THEN << IptCmd("-D", ActiveRule(4, prev)), IptCmd("-D", ActiveRule(6, prev)) >>
    ELSE <<>>

\* Identity.js:319-342
MigrationCmds(prev, profileId) ==
  IF ~Falsy(prev) /\ profileId # prev
    THEN << IptCmd("-D", ActiveRule(4, prev)), IptCmd("-D", ActiveRule(6, prev)),
            IptCmd("-D", NeutralizedRule(4)), IptCmd("-D", NeutralizedRule(6)) >>
    ELSE <<>>

StateNoCleanupCmds(state, profileId) ==
  CASE state = "true" ->
         << IptCmd("-A", ActiveRule(4, profileId)), IptCmd("-A", ActiveRule(6, profileId)) >>
    [] state = "null" ->
         << IptCmd("-A", NeutralizedRule(4)), IptCmd("-A", NeutralizedRule(6)) >>
    [] OTHER -> <<>>

StateTrueRemovesFirstCmds(state, profileId) ==
  CASE state = "true" ->
         << IptCmd("-D", NeutralizedRule(4)), IptCmd("-D", NeutralizedRule(6)),
            IptCmd("-A", ActiveRule(4, profileId)), IptCmd("-A", ActiveRule(6, profileId)) >>
    [] state = "null" ->
         << IptCmd("-D", ActiveRule(4, profileId)), IptCmd("-D", ActiveRule(6, profileId)),
            IptCmd("-A", NeutralizedRule(4)), IptCmd("-A", NeutralizedRule(6)) >>
    [] state = "false" ->
         << IptCmd("-D", ActiveRule(4, profileId)), IptCmd("-D", ActiveRule(6, profileId)),
            IptCmd("-D", NeutralizedRule(4)), IptCmd("-D", NeutralizedRule(6)) >>
    [] OTHER -> <<>>

StateNullInsertsFirstCmds(state, profileId) ==
  CASE state = "true" ->
         << IptCmd("-A", ActiveRule(4, profileId)), IptCmd("-A", ActiveRule(6, profileId)),
            IptCmd("-D", NeutralizedRule(4)), IptCmd("-D", NeutralizedRule(6)) >>
    [] state = "null" ->
         << IptCmd("-A", NeutralizedRule(4)), IptCmd("-A", NeutralizedRule(6)),
            IptCmd("-D", ActiveRule(4, profileId)), IptCmd("-D", ActiveRule(6, profileId)) >>
    [] state = "false" ->
         << IptCmd("-D", ActiveRule(4, profileId)), IptCmd("-D", ActiveRule(6, profileId)),
            IptCmd("-D", NeutralizedRule(4)), IptCmd("-D", NeutralizedRule(6)) >>
    [] OTHER -> <<>>

StateFalseKeepsNeutralizedCmds(state, profileId) ==
  CASE state = "true" ->
         << IptCmd("-A", ActiveRule(4, profileId)), IptCmd("-A", ActiveRule(6, profileId)),
            IptCmd("-D", NeutralizedRule(4)), IptCmd("-D", NeutralizedRule(6)) >>
    [] state = "null" ->
         << IptCmd("-D", ActiveRule(4, profileId)), IptCmd("-D", ActiveRule(6, profileId)),
            IptCmd("-A", NeutralizedRule(4)), IptCmd("-A", NeutralizedRule(6)) >>
    [] state = "false" ->
         << IptCmd("-D", ActiveRule(4, profileId)), IptCmd("-D", ActiveRule(6, profileId)) >>
    [] OTHER -> <<>>

\* Identity.js:356-417
StateCmds(state, profileId) ==
  CASE state = "true" ->
         << IptCmd("-A", ActiveRule(4, profileId)), IptCmd("-A", ActiveRule(6, profileId)),
            IptCmd("-D", NeutralizedRule(4)), IptCmd("-D", NeutralizedRule(6)) >>
    [] state = "null" ->
         << IptCmd("-D", ActiveRule(4, profileId)), IptCmd("-D", ActiveRule(6, profileId)),
            IptCmd("-A", NeutralizedRule(4)), IptCmd("-A", NeutralizedRule(6)) >>
    [] state = "false" ->
         << IptCmd("-D", ActiveRule(4, profileId)), IptCmd("-D", ActiveRule(6, profileId)),
            IptCmd("-D", NeutralizedRule(4)), IptCmd("-D", NeutralizedRule(6)) >>
    [] OTHER -> <<>>

RuleCmdsOnly(log) == SelectSeq(log, LAMBDA c : c.tool = "iptables")

NeverReturnsEarly(profileId) == FALSE

\* Identity.js:345-348: if (!profileId) return
ReturnsEarly(profileId) == Falsy(profileId)

CallCmdsStateFirst(mig, env, st) == env \o st \o mig

\* the order of the awaited steps of a call that does not return early: the migration
\* guard, the two ensureCreateEnforcementEnv calls, the branch of the state
CallCmds(mig, env, st) == mig \o env \o st

VpnClient(state, profileId) ==
  LET mig == MigrationCmds(_profileId, profileId)
      st == StateCmds(state, profileId)
      env == << [tool |-> "VPNClient", op |-> "ensureCreateEnforcementEnv",
                 profileId |-> profileId] >> \o EnsureCreateCmds(Self)
  IN /\ _profileId' = profileId
     /\ IF ReturnsEarly(profileId)
          THEN /\ chain' = ApplyRuleCmds(chain, mig)
               /\ opLog' = mig
               /\ UNCHANGED <<envCreatedMap, confFiles, ipsetCreated, vpnEnvCreated>>
          ELSE /\ vpnEnvCreated' = vpnEnvCreated \cup {profileId}
               /\ EnsureCreateEffect(Self)
               /\ chain' = ApplyRuleCmds(chain, RuleCmdsOnly(CallCmds(mig, env, st)))
               /\ opLog' = CallCmds(mig, env, st)
     /\ lastCall' = [op |-> "vpnClient", state |-> state, profileId |-> profileId,
                     prev |-> _profileId]
     /\ calls' = Bump(calls)
     /\ UNCHANGED <<ipsetEntries, _ips, registry>>
     /\ UNCHANGED <<allocVars, dockerVars, timerVars, policyVars, ctorVars, toggleVars, upd>>

----------------------------------------------------------------------------
(* vpnClient when commands fail *)

\* the exec calls of one vpnClient call: four of the migration guard, four of the state
MaxRuleCmds == 8

\* the positions, among the rule commands of a call, of those that fail
FailureSets == {{}} \cup {{i} : i \in 1..MaxRuleCmds} \cup {1..MaxRuleCmds}

RECURSIVE IssuedUntilFailure(_, _)
IssuedUntilFailure(cmds, failed) ==
  IF cmds = <<>> THEN <<>>
  ELSE IF 1 \in failed THEN <<Head(cmds)>>
  ELSE <<Head(cmds)>> \o IssuedUntilFailure(Tail(cmds), {i - 1 : i \in failed})

\* every exec(rule.toCmd(..)) carries its own catch, so each command is issued
Issued(cmds, failed) == cmds

\* the issued commands that took effect
Succeeded(cmds, failed) ==
  SelectSeq([i \in 1..Len(cmds) |-> [cmd |-> cmds[i], ok |-> i \notin failed]],
            LAMBDA x : x.ok)

\* one vpnClient call with failing commands; envThrows:
\* VPNClient.ensureCreateEnforcementEnv throws
VpnClientFaulty(state, profileId, failed, envThrows) ==
  LET mig == MigrationCmds(_profileId, profileId)
      st == IF Falsy(profileId) \/ envThrows THEN <<>> ELSE StateCmds(state, profileId)
      issued == Issued(mig \o st, failed)
      done == Succeeded(issued, failed)
      envCmds == IF Falsy(profileId) THEN <<>>
                 ELSE << [tool |-> "VPNClient", op |-> "ensureCreateEnforcementEnv",
                          profileId |-> profileId] >>
                      \o (IF envThrows THEN <<>> ELSE EnsureCreateCmds(Self))
  IN /\ failed \subseteq 1..Len(mig \o st)
     /\ lastCall.op = "none"
     /\ _profileId' = profileId
     /\ chain' = ApplyRuleCmds(chain, [i \in 1..Len(done) |-> done[i].cmd])
     /\ IF Falsy(profileId)
          THEN UNCHANGED <<envCreatedMap, confFiles, ipsetCreated, vpnEnvCreated>>
          ELSE IF envThrows
            THEN UNCHANGED <<envCreatedMap, confFiles, ipsetCreated, vpnEnvCreated>>
            ELSE /\ vpnEnvCreated' = vpnEnvCreated \cup {profileId}
                 /\ EnsureCreateEffect(Self)
     /\ opLog' = SubSeq(issued, 1, Len(Issued(mig, failed))) \o envCmds
                   \o SubSeq(issued, Len(Issued(mig, failed)) + 1, Len(issued))
     /\ lastCall' = [op |-> "vpnClient", state |-> state, profileId |-> profileId,
                     prev |-> _profileId, failed |-> failed, envThrows |-> envThrows,
                     outcome |-> "returned"]
     /\ calls' = Bump(calls)
     /\ UNCHANGED <<ipsetEntries, _ips, registry>>
     /\ UNCHANGED <<allocVars, dockerVars, timerVars, policyVars, ctorVars, toggleVars, upd>>

----------------------------------------------------------------------------
(* updateIPs *)

\* an address string is <<host part, suffix>>: "10.0.0.1/32" is <<"10.0.0.1", "/32">>
AddrUniverse ==
  { <<"10.0.0.1", "">>, <<"10.0.0.1", "/32">>, <<"10.0.0.2", "">>,
    <<"fd00::1", "/128">>, <<"bogus", "">> }

RECURSIVE SeqsUpTo(_)
SeqsUpTo(n) ==
  IF n = 0 THEN {<<>>}
  ELSE SeqsUpTo(n - 1) \cup {Append(s, a) : s \in {x \in SeqsUpTo(n - 1) : Len(x) = n - 1},
                                           a \in AddrUniverse}
IPLists == SeqsUpTo(MaxLen)

Range(s) == {s[i] : i \in 1..Len(s)}

HostFamily(h) ==
  CASE h \in {"10.0.0.1", "10.0.0.2"} -> 4
    [] h \in {"fd00::1"} -> 6
    [] OTHER -> 0

\* new Address4(ip).isValid(), new Address6(ip).isValid()
IsValid4(ip) == HostFamily(ip[1]) = 4 /\ ip[2] \in {"", "/32"}
IsValid6(ip) == HostFamily(ip[1]) = 6 /\ ip[2] \in {"", "/32", "/128"}

\* the order of Array.prototype.sort on the address strings
HostRank(h) ==
  CASE h = "10.0.0.1" -> 1 [] h = "10.0.0.2" -> 2 [] h = "bogus" -> 3 [] OTHER -> 4
SuffixRank(x) == CASE x = "" -> 0 [] x = "/128" -> 1 [] OTHER -> 2
Less(a, b) ==
  \/ HostRank(a[1]) < HostRank(b[1])
  \/ HostRank(a[1]) = HostRank(b[1]) /\ SuffixRank(a[2]) < SuffixRank(b[2])

RECURSIVE InsertSorted(_, _)
InsertSorted(s, a) ==
  IF s = <<>> THEN <<a>>
  ELSE IF Less(a, Head(s)) THEN <<a>> \o s
  ELSE <<Head(s)>> \o InsertSorted(Tail(s), a)

RECURSIVE Sort(_)
Sort(s) == IF s = <<>> THEN <<>> ELSE InsertSorted(Sort(Tail(s)), Head(s))

SameIPsInOrder(ips, prev) == ips = prev

NeverSameIPs(ips, prev) == FALSE

\* _.isEqual(ips.sort(), this._ips.sort())
SameIPs(ips, prev) == Sort(ips) = Sort(prev)

\* (ip.endsWith('/32') || ip.endsWith('/128')) ? ip.split('/')[0] : ip
Strip(ip) == IF ip[2] \in {"/32", "/128"} THEN <<ip[1], "">> ELSE ip

\* what a hash:net set stores for an added entry: a full-length prefix is the host
IpsetNorm(ip) ==
  IF (HostFamily(ip[1]) = 4 /\ ip[2] = "/32") \/ (HostFamily(ip[1]) = 6 /\ ip[2] = "/128")
    THEN <<ip[1], "">> ELSE ip

AddCmd(name, ip) == [tool |-> "ipset", op |-> "add", set |-> name, entry |-> ip]

\* the add commands of the batch, in list order
RECURSIVE BatchCmds(_)
BatchCmds(ips) ==
  IF ips = <<>> THEN <<>>
  ELSE (IF IsValid4(Head(ips)) THEN <<AddCmd(EnforcementIPsetName(Self, 4), Head(ips))>>
        ELSE IF IsValid6(Head(ips)) THEN <<AddCmd(EnforcementIPsetName(Self, 6), Head(ips))>>
        ELSE <<>>) \o BatchCmds(Tail(ips))

RECURSIVE BatchOp(_, _)
BatchOp(entries, cmds) ==
  IF cmds = <<>> THEN entries
  ELSE LET c == Head(cmds)
       IN BatchOp(IF c.set \in ipsetCreated
                    THEN [entries EXCEPT ![c.set] = @ \cup {IpsetNorm(c.entry)}]
                    ELSE entries,
                  Tail(cmds))

FlushNone(entries) == entries

FlushV4Only(entries) == Flush(entries, EnforcementIPsetName(Self, 4))

\* Identity.js:134-139
FlushBoth(entries) ==
  Flush(Flush(entries, EnforcementIPsetName(Self, 4)), EnforcementIPsetName(Self, 6))

RemovedIPs(currentIPs, ips) == {ip \in currentIPs : ip \notin Range(ips)}
NewIPs(currentIPs, ips) == {Strip(ip) : ip \in {x \in Range(ips) : x \notin currentIPs}}

UpdateIPs(ips) ==
  /\ lastCall' = [op |-> "updateIPs", ips |-> ips]
  /\ calls' = Bump(calls)
  /\ UNCHANGED <<envCreatedMap, confFiles, ipsetCreated, vpnEnvCreated, _profileId, chain>>
  /\ UNCHANGED <<allocVars, dockerVars, timerVars, policyVars, ctorVars, toggleVars, upd>>
  /\ IF _ips.defined /\ SameIPs(ips, _ips.list)
       THEN \* both arrays were sorted in place by the comparison
            /\ _ips' = [defined |-> TRUE, list |-> Sort(_ips.list)]
            /\ opLog' = <<>>
            /\ UNCHANGED <<ipsetEntries, registry>>
       ELSE LET arg == IF _ips.defined THEN Sort(ips) ELSE ips
                cmds == BatchCmds(arg)
                removedIPs == RemovedIPs(registry, arg)
                newIPs == NewIPs(registry, arg)
            IN /\ ipsetEntries' = BatchOp(FlushBoth(ipsetEntries), cmds)
               /\ registry' = (registry \ removedIPs) \cup newIPs
               /\ _ips' = [defined |-> TRUE, list |-> arg]
               /\ opLog' = << FlushCmd(Self, 4), FlushCmd(Self, 6),
                              [tool |-> "ipset", op |-> "batchOp", cmds |-> cmds],
                              [tool |-> "redis", op |-> "smembers"] >>
                           \o (IF removedIPs # {}
                                 THEN <<[tool |-> "redis", op |-> "srem", ips |-> removedIPs]>>
                                 ELSE <<>>)
                           \o (IF newIPs # {}
                                 THEN <<[tool |-> "redis", op |-> "sadd", ips |-> newIPs]>>
                                 ELSE <<>>)

----------------------------------------------------------------------------
(* updateIPs when a command or a registry operation fails *)

IPSteps == {"flush4", "flush6", "batchOp", "smembers", "srem", "sadd"}

\* no step fails, or one does
StepFailures == {{}} \cup {{x} : x \in IPSteps}

\* each flush and the batch carry a catch; the three registry operations are awaited
\* bare, so their rejection leaves updateIPs at that line
ThrowsAt(failed, removedIPs, newIPs) ==
  IF "smembers" \in failed THEN "smembers"
  ELSE IF "srem" \in failed /\ removedIPs # {} THEN "srem"
  ELSE IF "sadd" \in failed /\ newIPs # {} THEN "sadd"
  ELSE "none"

UpdateIPsFaulty(ips, failed) ==
  /\ calls' = Bump(calls)
  /\ UNCHANGED <<envCreatedMap, confFiles, ipsetCreated, vpnEnvCreated, _profileId, chain>>
  /\ UNCHANGED <<allocVars, dockerVars, timerVars, policyVars, ctorVars, toggleVars, upd>>
  /\ IF _ips.defined /\ SameIPs(ips, _ips.list)
       THEN /\ _ips' = [defined |-> TRUE, list |-> Sort(_ips.list)]
            /\ opLog' = <<>>
            /\ lastCall' = [op |-> "updateIPs", ips |-> ips, failed |-> failed,
                            changed |-> FALSE, outcome |-> "returned"]
            /\ UNCHANGED <<ipsetEntries, registry>>
       ELSE LET arg == IF _ips.defined THEN Sort(ips) ELSE ips
                cmds == BatchCmds(arg)
                removedIPs == RemovedIPs(registry, arg)
                newIPs == NewIPs(registry, arg)
                throwsAt == ThrowsAt(failed, removedIPs, newIPs)
                flushed4 == IF "flush4" \in failed THEN ipsetEntries
                            ELSE Flush(ipsetEntries, EnforcementIPsetName(Self, 4))
                flushed == IF "flush6" \in failed THEN flushed4
                           ELSE Flush(flushed4, EnforcementIPsetName(Self, 6))
            IN /\ ipsetEntries' = IF "batchOp" \in failed THEN flushed
                                  ELSE BatchOp(flushed, cmds)
               /\ registry' = CASE throwsAt \in {"smembers", "srem"} -> registry
                                [] throwsAt = "sadd" -> registry \ removedIPs
                                [] OTHER -> (registry \ removedIPs) \cup newIPs
               /\ _ips' = IF throwsAt = "none" THEN [defined |-> TRUE, list |-> arg]
                          ELSE IF _ips.defined
                                 THEN [defined |-> TRUE, list |-> Sort(_ips.list)]
                                 ELSE _ips
               /\ opLog' = << FlushCmd(Self, 4), FlushCmd(Self, 6),
                              [tool |-> "ipset", op |-> "batchOp", cmds |-> cmds],
                              [tool |-> "redis", op |-> "smembers"] >>
                           \o (IF removedIPs # {} /\ throwsAt # "smembers"
                                 THEN <<[tool |-> "redis", op |-> "srem", ips |-> removedIPs]>>
                                 ELSE <<>>)
                           \o (IF newIPs # {} /\ throwsAt \notin {"smembers", "srem"}
                                 THEN <<[tool |-> "redis", op |-> "sadd", ips |-> newIPs]>>
                                 ELSE <<>>)
               /\ lastCall' = [op |-> "updateIPs", ips |-> arg, failed |-> failed,
                               changed |-> TRUE,
                               outcome |-> IF throwsAt = "none" THEN "returned" ELSE "threw"]

----------------------------------------------------------------------------
(* setPolicy *)

PolicyNames == {"acl", "qos"}
PolicyValues == {"block", "allow"}

ChangeEvent(uid, name, data) ==
  [channel |-> "DiscoveryEvent", type |-> "IdentityPolicy:Changed", id |-> uid,
   name |-> name, data |-> data]

PublishAlways(events, ev) == Append(events, ev)

\* if (this.subscriber) this.subscriber.publish(...)
Publish(events, ev) == IF subscriber THEN Append(events, ev) ELSE events

\* setPolicy up to its await: the assignment, and savePolicy called with the object
SetPolicyEffect(name, data) ==
  /\ policy' = [policy EXCEPT ![name] = data]
  /\ pendingSaves' = Append(pendingSaves,
                            [name |-> name, data |-> data,
                             snapshot |-> [policy EXCEPT ![name] = data]])
  /\ UNCHANGED <<subscriber, persistLog, published>>

SetPolicy(name, data) ==
  /\ Len(pendingSaves) + Len(persistLog) < MaxSets
  /\ SetPolicyEffect(name, data)
  /\ lastCall' = [op |-> "setPolicy", name |-> name, data |-> data]
  /\ calls' = Bump(calls)
  /\ opLog' = <<>>
  /\ UNCHANGED <<envCreatedMap, confFiles, ipsetCreated, ipsetEntries, vpnEnvCreated,
                 _ips, registry, _profileId, chain, _aclTimer, timers, now, timerHist,
                 allocVars, dockerVars, ctorVars, toggleVars, upd>>

\* savePolicy resolves and the suspended setPolicy continues
SavePolicyDone ==
  /\ pendingSaves # <<>>
  /\ LET c == Head(pendingSaves)
     IN /\ persistLog' = Append(persistLog, c)
        /\ published' = Publish(published, ChangeEvent(Self, c.name, c.data))
  /\ pendingSaves' = Tail(pendingSaves)
  /\ UNCHANGED <<subscriber, policy, _aclTimer, timers, now, timerHist, historyVars>>
  /\ UNCHANGED <<envCreatedMap, confFiles, ipsetCreated, ipsetEntries, vpnEnvCreated,
                 _ips, registry, _profileId, chain, allocVars, dockerVars,
                 ctorVars, toggleVars, upd>>

----------------------------------------------------------------------------
(* constructor *)

\* getUniqueId() of the constructed object; "" stands for an id that does not resolve
CtorUIDs == UIDs \cup {""}

NeverRegistered(key) == FALSE

\* instances[instanceKey] is truthy
Registered(key) == instances[key] # 0

\* new Identity(o): the fresh object is number Len(constructed) + 1
Construct(uid) ==
  LET this == Len(constructed) + 1
      instanceKey == InstanceKey(uid)
      subscribes == ~Registered(instanceKey) /\ isMain /\ ~Falsy(uid)
      registered == IF Registered(instanceKey) THEN instances
                    ELSE [instances EXCEPT ![instanceKey] = this]
  IN /\ Len(constructed) < MaxCtor
     /\ subscriptions' = IF subscribes
                           THEN Append(subscriptions,
                                       [channel |-> "DiscoveryEvent",
                                        type |-> "IdentityPolicy:Changed",
                                        id |-> uid, by |-> this])
                           ELSE subscriptions
     /\ instances' = registered
     /\ constructed' = Append(constructed,
                              [key |-> instanceKey, this |-> this,
                               returned |-> registered[instanceKey]])
     /\ lastCall' = [op |-> "constructor", uid |-> uid]
     /\ calls' = Bump(calls)
     /\ opLog' = <<>>
     /\ UNCHANGED isMain
     /\ UNCHANGED <<envCreatedMap, confFiles, ipsetCreated, ipsetEntries, vpnEnvCreated,
                    _ips, registry, _profileId, chain, timerVars, policyVars, toggleVars,
                    allocVars, dockerVars, upd>>

----------------------------------------------------------------------------
(* qos, acl, _dnsmasq *)

OffSets == {"QOS_OFF", "ACL_OFF", "NO_DNS_BOOST"}
ToggleStates == {"true", "false"}
\* policy.dnsCaching; "null" stands for a policy that lacks the field
DnsCachingValues == {"true", "false", "null"}

\* state === true removes the identity's sets from the off-set, anything else adds them
ToggleOp(state) == IF state = "true" THEN "del" ELSE "add"

ToggleCmd(offSet, state, af) ==
  [tool |-> "ipset", op |-> ToggleOp(state), set |-> offSet,
   entry |-> EnforcementIPsetName(Self, af)]

AttemptedUntilFailure(failed) == IF 4 \in failed THEN <<4>> ELSE <<4, 6>>

\* every exec carries its own catch: the v6 command runs whatever the v4 command did
Attempted(failed) == <<4, 6>>

\* the members of the off-set after the commands of the families that did not fail
ToggleMembers(members, state, done) ==
  IF ToggleOp(state) = "del"
    THEN members \ {EnforcementIPsetName(Self, af) : af \in done}
    ELSE members \cup {EnforcementIPsetName(Self, af) : af \in done}

Toggle(method, offSet, state, failed) ==
  LET attempted == Attempted(failed)
      done == {attempted[i] : i \in 1..Len(attempted)} \ failed
  IN /\ offSets' = [offSets EXCEPT ![offSet] = ToggleMembers(@, state, done)]
     /\ lastToggle' = [lastToggle EXCEPT ![offSet] = Some([state |-> state, failed |-> failed])]
     /\ opLog' = [i \in 1..Len(attempted) |-> ToggleCmd(offSet, state, attempted[i])]
     /\ lastCall' = [op |-> method, state |-> state, failed |-> failed]
     /\ calls' = Bump(calls)
     /\ UNCHANGED <<envCreatedMap, confFiles, ipsetCreated, ipsetEntries, vpnEnvCreated,
                    _ips, registry, _profileId, chain, timerVars, policyVars, ctorVars,
                    allocVars, dockerVars, upd>>

Qos(state, failed) == Toggle("qos", "QOS_OFF", state, failed)
Acl(state, failed) == Toggle("acl", "ACL_OFF", state, failed)
Dnsmasq(dnsCaching, failed) == Toggle("_dnsmasq", "NO_DNS_BOOST", dnsCaching, failed)

----------------------------------------------------------------------------
(* aclTimer *)

AclStates == {"block", "allow"}

\* policy = {state, time}: the state may be missing; the time is a number of seconds
\* or, as None, missing or not numeric
AclTimerPolicies ==
  [hasState : BOOLEAN, state : AclStates,
   time : {None} \cup {Some(n) : n \in 0..MaxTime}]

IsNaN(time) == ~time.present

KeepTimeout(pending, handle) == pending

ClearTimeoutButFirst(pending, handle) ==
  IF handle.present /\ handle.v # 1 THEN {tm \in pending : tm.id # handle.v} ELSE pending

\* clearTimeout(this._aclTimer)
ClearTimeout(pending, handle) ==
  IF handle.present THEN {tm \in pending : tm.id # handle.v} ELSE pending

ValidAclTimerAnyTime(p) == p.hasState /\ ~IsNaN(p.time)

\* policy.hasOwnProperty("state") && !isNaN(policy.time) && Number(policy.time) > Date.now() / 1000
ValidAclTimer(p) == p.hasState /\ ~IsNaN(p.time) /\ p.time.v > now

AclTimer(p) ==
  LET cleared == ClearTimeout(timers, _aclTimer)
      id == Len(timerHist.scheduled) + 1
  IN /\ IF ValidAclTimer(p)
          THEN /\ id <= MaxTimers
               /\ timers' = cleared \cup {[id |-> id, nextState |-> p.state, at |-> p.time.v]}
               /\ _aclTimer' = Some(id)
               /\ timerHist' = [timerHist EXCEPT
                    !.scheduled = Append(@, [nextState |-> p.state, at |-> p.time.v]),
                    !.cleared = @ \cup {tm.id : tm \in timers \ cleared}]
          ELSE /\ timers' = cleared
               /\ _aclTimer' = _aclTimer
               /\ timerHist' = [timerHist EXCEPT
                    !.cleared = @ \cup {tm.id : tm \in timers \ cleared}]
     /\ lastCall' = [op |-> "aclTimer", policy |-> p, valid |-> ValidAclTimer(p)]
     /\ calls' = Bump(calls)
     /\ opLog' = <<>>
     /\ UNCHANGED <<policy, now, policyVars>>
     /\ UNCHANGED <<envCreatedMap, confFiles, ipsetCreated, ipsetEntries, vpnEnvCreated,
                    _ips, registry, _profileId, chain, allocVars, dockerVars,
                    ctorVars, toggleVars, upd>>

\* the callback of a timeout that is due: this.setPolicy("acl", nextState)
\* (delays stay far below the 2^31 - 1 ms that setTimeout can represent)
TimerFire ==
  \E tm \in timers :
    /\ tm.at <= now
    /\ timers' = timers \ {tm}
    /\ SetPolicyEffect("acl", tm.nextState)
    /\ timerHist' = [timerHist EXCEPT !.fired = @ \cup {tm.id}]
    /\ UNCHANGED <<_aclTimer, now, historyVars>>
    /\ UNCHANGED <<envCreatedMap, confFiles, ipsetCreated, ipsetEntries, vpnEnvCreated,
                   _ips, registry, _profileId, chain, allocVars, dockerVars,
                   ctorVars, toggleVars, upd>>

\* a second passes
Tick ==
  /\ now < MaxTime
  /\ now' = now + 1
  /\ UNCHANGED <<policy, _aclTimer, timers, timerHist, historyVars, policyVars>>
  /\ UNCHANGED <<envCreatedMap, confFiles, ipsetCreated, ipsetEntries, vpnEnvCreated,
                 _ips, registry, _profileId, chain, allocVars, dockerVars,
                 ctorVars, toggleVars, upd>>

----------------------------------------------------------------------------
(* DockerBaseVPNClient: addresses and the subnet allocator *)

MaxDraw == 1
PollBudget == 30

\* an IPv4 address is <<its upper 24 bits, its last byte>>
Hi24(a, b, c) == (a * 256 + b) * 256 + c

RECURSIVE Pow2(_)
Pow2(n) == IF n = 0 THEN 1 ELSE 2 * Pow2(n - 1)

\* bigInteger().add(k) on an address
AddrAdd(addr, k) == <<addr[1] + ((addr[2] + k) \div 256), (addr[2] + k) % 256>>

Subnet(a, b, c, d, len) == [hi |-> Hi24(a, b, c), lo |-> d, len |-> len]

\* the address lies in the subnet
InSubnet(addr, s) ==
  IF s.len <= 24
    THEN s.hi <= addr[1] /\ addr[1] < s.hi + Pow2(24 - s.len)
    ELSE addr[1] = s.hi /\ s.lo <= addr[2] /\ addr[2] < s.lo + Pow2(32 - s.len)

\* sysManager.inMySubnets4(ip): the address is in a subnet of one of the interfaces
InMySubnets4(addr) == \E s \in localSubnets : InSubnet(addr, s)

\* ipRangeRandomMap, in key order
IpRangeRandomMap ==
  << [start |-> Hi24(10, 0, 0), randomBits |-> 16],
     [start |-> Hi24(172, 16, 0), randomBits |-> 12],
     [start |-> Hi24(192, 168, 0), randomBits |-> 8] >>

\* values of Math.floor(Math.random() * Math.pow(2, randomBits)) the model draws
RandomDraws(randomBits) == (0..MaxDraw) \cup {Pow2(randomBits) - 1}

AllDraws == UNION {RandomDraws(IpRangeRandomMap[i].randomBits) : i \in 1..3}

LocalSubnetPool ==
  { Subnet(10, 0, 0, 0, 8), Subnet(172, 16, 0, 0, 12), Subnet(192, 168, 0, 0, 16),
    Subnet(192, 168, 0, 0, 24), Subnet(10, 0, 1, 128, 25) }

SkipRange(index) == index + 2

\* index++ on a collision; the loop takes index % 3 at its top
AdvanceIndex(index) == index + 1

\* one iteration of the while loop of _generateRamdomNetwork, drawing k
AllocIterate(k) ==
  /\ allocPc = "loop"
  /\ LET index == allocIndex % 3
         range == IpRangeRandomMap[index + 1]
         randomOffsets == k * 256
         subnet == AddrAdd(<<range.start, 0>>, randomOffsets)
     IN /\ k \in RandomDraws(range.randomBits)
        /\ IF ~InMySubnets4(subnet)
             THEN /\ allocResult' = Some([hi |-> subnet[1], lo |-> subnet[2], len |-> 24])
                  /\ allocPc' = "returned"
                  /\ allocIndex' = index
             ELSE /\ allocIndex' = AdvanceIndex(index)
                  /\ UNCHANGED <<allocPc, allocResult>>
  /\ UNCHANGED <<localSubnets, identityVars, historyVars, dockerVars>>

\* a call of _generateRamdomNetwork on its own
GenerateRamdomNetwork ==
  /\ allocPc \in {"idle", "returned"}
  /\ startPc \in {"idle", "done"}
  /\ allocPc' = "loop"
  /\ allocIndex' = 0
  /\ allocResult' = None
  /\ UNCHANGED <<localSubnets, identityVars, historyVars, dockerVars>>

----------------------------------------------------------------------------
(* DockerBaseVPNClient: start, stop, destroy *)

InterfaceName == "vpn_profile"

\* the docker-compose.yaml that __prepareAssets leaves in the config directory
Descriptors ==
  { d \in [hasDefaultNetwork : BOOLEAN, hasService : BOOLEAN, serviceOnDefault : BOOLEAN] :
      d.serviceOnDefault => d.hasService }

NoCompose == [exists |-> FALSE]

\* _getRemoteIP: the .2 address of the persisted subnet, or null
GetRemoteIP(file) ==
  IF file.present THEN Some(AddrAdd(<<file.v.hi, file.v.lo>>, 2)) ELSE None

AlwaysNeedSubnet(file) == TRUE

\* if (!subnet)
NeedSubnet(file) == ~file.present

\* lines 106-125: the descriptor as rewritten for the subnet
RewriteCompose(desc, subnet, file) ==
  [exists |-> TRUE, descriptor |-> desc, rewritten |-> TRUE,
   bridgeName |-> InterfaceName,
   ipam |-> subnet,
   ipv4Address |-> IF desc.serviceOnDefault THEN GetRemoteIP(file) ELSE None,
   serviceName |-> IF desc.hasService THEN InterfaceName ELSE "",
   containerName |-> IF desc.hasService THEN InterfaceName ELSE ""]

\* line 136: the descriptor as copied from the config directory
CopyCompose(desc) == [exists |-> TRUE, descriptor |-> desc, rewritten |-> FALSE]

LoopContinuesOnceMore(n) == n < PollBudget + 1

\* while (t < 30)
LoopContinues(n) == n < PollBudget

CarrierUpUnlessDown(carrier) == carrier # "0"

\* carrier === "1"
CarrierUp(carrier) == carrier = "1"

NewStartHist(allocRuns) ==
  [reads |-> 0, delays |-> 0, carrierSeen |-> FALSE, routeAdds |-> 0,
   allocRuns |-> allocRuns]

\* lines 138-143: start the service, masquerade the container address, enter the loop
StartService(file) ==
  /\ serviceUp' = TRUE
  /\ natRules' = IF GetRemoteIP(file).present
                   THEN natRules \cup {GetRemoteIP(file).v} ELSE natRules
  /\ t' = 0
  /\ startPc' = IF LoopContinues(0) THEN "poll" ELSE "done"

\* _start up to the allocator call (when one is needed) or up to the poll loop
StartBegin(desc) ==
  /\ startPc \in {"idle", "done"}
  /\ allocPc \in {"idle", "returned"}
  /\ lastCall' = [op |-> "start"]
  /\ calls' = Bump(calls)
  /\ opLog' = <<>>
  /\ UNCHANGED <<localSubnets, identityVars, wanRoutable>>
  /\ IF desc.hasDefaultNetwork
       THEN IF NeedSubnet(subnetFile)
              THEN /\ allocPc' = "loop"
                   /\ allocIndex' = 0
                   /\ allocResult' = None
                   /\ startPc' = "alloc"
                   /\ workCompose' = CopyCompose(desc)
                   /\ startHist' = NewStartHist(1)
                   /\ UNCHANGED <<subnetFile, serviceUp, natRules, t>>
              ELSE /\ workCompose' = RewriteCompose(desc, subnetFile.v, subnetFile)
                   /\ startHist' = NewStartHist(0)
                   /\ StartService(subnetFile)
                   /\ UNCHANGED <<subnetFile, allocPc, allocIndex, allocResult>>
       ELSE /\ workCompose' = CopyCompose(desc)
            /\ startHist' = NewStartHist(0)
            /\ StartService(subnetFile)
            /\ UNCHANGED <<subnetFile, allocPc, allocIndex, allocResult>>

\* _start from the return of the allocator to the poll loop
StartResume ==
  /\ startPc = "alloc"
  /\ allocPc = "returned"
  /\ subnetFile' = Some(allocResult.v)
  /\ workCompose' = RewriteCompose(workCompose.descriptor, allocResult.v, subnetFile')
  /\ StartService(subnetFile')
  /\ allocPc' = "idle"
  /\ allocIndex' = 0
  /\ allocResult' = None
  /\ UNCHANGED <<localSubnets, identityVars, historyVars, wanRoutable, startHist>>

\* one iteration of the poll loop up to its delay (lines 144-153)
Poll(carrier) ==
  /\ startPc = "poll"
  /\ IF CarrierUp(carrier)
       THEN LET remoteIP == GetRemoteIP(subnetFile)
            IN /\ wanRoutable' = IF remoteIP.present
                                   THEN wanRoutable \cup {[dest |-> remoteIP.v,
                                                           dev |-> InterfaceName]}
                                   ELSE wanRoutable
               /\ startHist' = [startHist EXCEPT
                                  !.reads = @ + 1,
                                  !.carrierSeen = (carrier = "1"),
                                  !.routeAdds = IF remoteIP.present THEN @ + 1 ELSE @]
               /\ startPc' = "done"
               /\ t' = t
       ELSE /\ t' = t + 1
            /\ startHist' = [startHist EXCEPT !.reads = @ + 1]
            /\ startPc' = "delay"
            /\ UNCHANGED wanRoutable
  /\ UNCHANGED <<subnetFile, workCompose, serviceUp, natRules>>
  /\ UNCHANGED <<allocVars, identityVars, historyVars>>

\* scheduler.delay(1000), then the loop test
Delay ==
  /\ startPc = "delay"
  /\ startHist' = [startHist EXCEPT !.delays = @ + 1]
  /\ startPc' = IF LoopContinues(t) THEN "poll" ELSE "done"
  /\ UNCHANGED <<subnetFile, workCompose, serviceUp, natRules, wanRoutable, t>>
  /\ UNCHANGED <<allocVars, identityVars, historyVars>>

Stop ==
  /\ startPc \in {"idle", "done"}
  /\ natRules' = IF GetRemoteIP(subnetFile).present
                   THEN natRules \ {GetRemoteIP(subnetFile).v} ELSE natRules
  /\ serviceUp' = FALSE
  /\ lastCall' = [op |-> "stop"]
  /\ calls' = Bump(calls)
  /\ opLog' = <<>>
  /\ UNCHANGED <<subnetFile, workCompose, wanRoutable, startPc, t, startHist>>
  /\ UNCHANGED <<allocVars, identityVars>>

\* destroy, after the teardown of the base class
Destroy ==
  /\ startPc \in {"idle", "done"}
  /\ subnetFile' = None
  /\ workCompose' = NoCompose
  /\ lastCall' = [op |-> "destroy"]
  /\ calls' = Bump(calls)
  /\ opLog' = <<>>
  /\ UNCHANGED <<serviceUp, natRules, wanRoutable, startPc, t, startHist>>
  /\ UNCHANGED <<allocVars, identityVars>>

----------------------------------------------------------------------------
(* Identity.updateIPs: two calls on one identity, interleaved at their awaits *)

MaxOverlapLen == 1
OverlapLists == SeqsUpTo(MaxOverlapLen)
CallIds == {1, 2}

NoCall == [pc |-> "idle", ips |-> <<>>, currentIPs |-> {}, overlapped |-> FALSE]
NoCalls == [c \in CallIds |-> NoCall]

InFlight(c) == upd[c].pc \notin {"idle", "done"}

MayBeginWhenOthersDone(c) == \A d \in CallIds \ {c} : ~InFlight(d)

\* updateIPs takes no lock and waits for no earlier call
MayBegin(c) == TRUE

\* the position after the registry was read: srem, sadd or the final assignment
AfterSmembers(currentIPs, ips) ==
  IF RemovedIPs(currentIPs, ips) # {} THEN "srem"
  ELSE IF NewIPs(currentIPs, ips) # {} THEN "sadd" ELSE "assign"

\* lines 129-134: the synchronous head of the call, up to the first await
UpdBegin(c, ips) ==
  /\ MayBegin(c)
  /\ upd[c].pc = "idle"
  /\ lastCall' = [op |-> "updateIPs", ips |-> ips]
  /\ calls' = Bump(calls)
  /\ opLog' = <<>>
  /\ _ips' = IF _ips.defined THEN [defined |-> TRUE, list |-> Sort(_ips.list)] ELSE _ips
  /\ upd' = [upd EXCEPT ![c] =
               [pc |-> IF _ips.defined /\ SameIPs(ips, _ips.list) THEN "done" ELSE "flush4",
                ips |-> IF _ips.defined THEN Sort(ips) ELSE ips,
                currentIPs |-> {},
                overlapped |-> \E d \in CallIds \ {c} : InFlight(d)]]
  /\ UNCHANGED <<envCreatedMap, confFiles, ipsetCreated, ipsetEntries, vpnEnvCreated,
                 registry, _profileId, chain>>
  /\ UNCHANGED <<allocVars, dockerVars, timerVars, policyVars, ctorVars, toggleVars>>

\* one awaited operation of call c completes and the call runs on to its next await
UpdStep(c) ==
  LET u == upd[c]
      Goto(pc) == [upd EXCEPT ![c].pc = pc]
      Finish == /\ _ips' = [defined |-> TRUE, list |-> u.ips]
                /\ upd' = Goto("done")
  IN /\ InFlight(c)
     /\ UNCHANGED <<envCreatedMap, confFiles, ipsetCreated, vpnEnvCreated, _profileId, chain>>
     /\ UNCHANGED <<allocVars, dockerVars, timerVars, policyVars, ctorVars, toggleVars>>
     /\ UNCHANGED historyVars
     /\ CASE u.pc = "flush4" ->
               /\ ipsetEntries' = Flush(ipsetEntries, EnforcementIPsetName(Self, 4))
               /\ upd' = Goto("flush6")
               /\ UNCHANGED <<registry, _ips>>
          [] u.pc = "flush6" ->
               /\ ipsetEntries' = Flush(ipsetEntries, EnforcementIPsetName(Self, 6))
               /\ upd' = Goto("batch")
               /\ UNCHANGED <<registry, _ips>>
          [] u.pc = "batch" ->
               /\ ipsetEntries' = BatchOp(ipsetEntries, BatchCmds(u.ips))
               /\ upd' = Goto("smembers")
               /\ UNCHANGED <<registry, _ips>>
          [] u.pc = "smembers" ->
               /\ UNCHANGED <<ipsetEntries, registry>>
               /\ IF AfterSmembers(registry, u.ips) = "assign"
                    THEN Finish
                    ELSE /\ upd' = [upd EXCEPT ![c].pc = AfterSmembers(registry, u.ips),
                                               ![c].currentIPs = registry]
                         /\ UNCHANGED _ips
          [] u.pc = "srem" ->
               /\ registry' = registry \ RemovedIPs(u.currentIPs, u.ips)
               /\ UNCHANGED ipsetEntries
               /\ IF NewIPs(u.currentIPs, u.ips) # {}
                    THEN upd' = Goto("sadd") /\ UNCHANGED _ips
                    ELSE Finish
          [] u.pc = "sadd" ->
               /\ registry' = registry \cup NewIPs(u.currentIPs, u.ips)
               /\ UNCHANGED ipsetEntries
               /\ Finish

----------------------------------------------------------------------------
(* DockerBaseVPNClient: start when a step fails *)

StartSteps ==
  {"mkdir", "cp", "readCompose", "readSubnet", "writeSubnet", "writeCompose",
   "systemctlStart", "natRule", "addRoute"}

\* the steps of _start that are awaited without a catch
Uncaught == {"mkdir", "cp", "writeCompose", "systemctlStart", "natRule", "addRoute"}

Step(name) == [tool |-> "step", op |-> name]

StartCall(failed, threw) == [op |-> "start", failed |-> failed, threw |-> threw]

\* lines 138-143 with a failing step: the service start and the NAT rule have no catch
StartServiceFaulty(file, failed, log) ==
  LET remoteIP == GetRemoteIP(file)
      threw == \/ failed = "systemctlStart"
               \/ failed = "natRule" /\ remoteIP.present
  IN /\ serviceUp' = IF failed = "systemctlStart" THEN serviceUp ELSE TRUE
     /\ natRules' = IF remoteIP.present /\ failed \notin {"systemctlStart", "natRule"}
                      THEN natRules \cup {remoteIP.v} ELSE natRules
     /\ t' = 0
     /\ startPc' = IF ~threw /\ LoopContinues(0) THEN "poll" ELSE "done"
     /\ lastCall' = StartCall(failed, threw)
     /\ opLog' = log \o <<Step("systemctlStart")>>
                   \o (IF failed # "systemctlStart" /\ remoteIP.present
                         THEN <<Step("natRule")>> ELSE <<>>)

\* _start with one failing step, up to the allocator call or up to the poll loop
StartBeginFaulty(desc, failed) ==
  /\ startPc \in {"idle", "done"}
  /\ allocPc \in {"idle", "returned"}
  /\ calls' = Bump(calls)
  /\ startHist' = NewStartHist(0)
  /\ UNCHANGED <<localSubnets, identityVars, wanRoutable>>
  /\ IF failed \in {"mkdir", "cp"}
       THEN /\ lastCall' = StartCall(failed, TRUE)
            /\ opLog' = IF failed = "mkdir" THEN <<Step("mkdir")>>
                        ELSE <<Step("mkdir"), Step("cp")>>
            /\ startPc' = "done"
            /\ UNCHANGED <<subnetFile, workCompose, serviceUp, natRules, t, allocPc,
                           allocIndex, allocResult>>
       ELSE LET log == <<Step("mkdir"), Step("cp"), Step("readCompose")>>
                subnet == IF failed = "readSubnet" THEN None ELSE subnetFile
            IN IF failed = "readCompose" \/ ~desc.hasDefaultNetwork
                 THEN /\ workCompose' = CopyCompose(desc)
                      /\ StartServiceFaulty(subnetFile, failed, log)
                      /\ UNCHANGED <<subnetFile, allocPc, allocIndex, allocResult>>
                 ELSE IF NeedSubnet(subnet)
                   THEN /\ allocPc' = "loop"
                        /\ allocIndex' = 0
                        /\ allocResult' = None
                        /\ startPc' = "alloc"
                        /\ workCompose' = CopyCompose(desc)
                        /\ lastCall' = StartCall(failed, FALSE)
                        /\ opLog' = log \o <<Step("readSubnet")>>
                        /\ UNCHANGED <<subnetFile, serviceUp, natRules, t>>
                   ELSE /\ UNCHANGED <<subnetFile, allocPc, allocIndex, allocResult>>
                        /\ IF failed = "writeCompose"
                             THEN /\ workCompose' = CopyCompose(desc)
                                  /\ lastCall' = StartCall(failed, TRUE)
                                  /\ opLog' = log \o <<Step("readSubnet"),
                                                       Step("writeCompose")>>
                                  /\ startPc' = "done"
                                  /\ UNCHANGED <<serviceUp, natRules, t>>
                             ELSE /\ workCompose' = RewriteCompose(desc, subnet.v, subnetFile)
                                  /\ StartServiceFaulty(subnetFile, failed,
                                       log \o <<Step("readSubnet"), Step("writeCompose")>>)

\* _start from the return of the allocator to the poll loop, with the failing step
StartResumeFaulty ==
  LET failed == lastCall.failed
      file == IF failed = "writeSubnet" THEN subnetFile ELSE Some(allocResult.v)
      log == opLog \o <<Step("writeSubnet"), Step("writeCompose")>>
  IN /\ startPc = "alloc"
     /\ allocPc = "returned"
     /\ subnetFile' = file
     /\ allocPc' = "idle"
     /\ allocIndex' = 0
     /\ allocResult' = None
     /\ UNCHANGED <<localSubnets, identityVars, calls, wanRoutable, startHist>>
     /\ IF failed = "writeCompose"
          THEN /\ lastCall' = StartCall(failed, TRUE)
               /\ opLog' = log
               /\ startPc' = "done"
               /\ UNCHANGED <<workCompose, serviceUp, natRules, t>>
          ELSE /\ workCompose' = RewriteCompose(workCompose.descriptor, allocResult.v, file)
               /\ StartServiceFaulty(file, failed, log)

\* one iteration of the poll loop; routing.addRouteToTable is awaited without a catch
PollFaulty(carrier) ==
  /\ startPc = "poll"
  /\ IF CarrierUp(carrier)
       THEN LET remoteIP == GetRemoteIP(subnetFile)
                fails == remoteIP.present /\ lastCall.failed = "addRoute"
            IN /\ wanRoutable' = IF remoteIP.present /\ ~fails
                                   THEN wanRoutable \cup {[dest |-> remoteIP.v,
                                                           dev |-> InterfaceName]}
                                   ELSE wanRoutable
               /\ startHist' = [startHist EXCEPT
                                  !.reads = @ + 1,
                                  !.carrierSeen = (carrier = "1"),
                                  !.routeAdds = IF remoteIP.present /\ ~fails THEN @ + 1 ELSE @]
               /\ lastCall' = StartCall(lastCall.failed, fails)
               /\ startPc' = "done"
               /\ t' = t
       ELSE /\ t' = t + 1
            /\ startHist' = [startHist EXCEPT !.reads = @ + 1]
            /\ startPc' = "delay"
            /\ UNCHANGED <<wanRoutable, lastCall>>
  /\ UNCHANGED <<subnetFile, workCompose, serviceUp, natRules, opLog, calls>>
  /\ UNCHANGED <<allocVars, identityVars>>

----------------------------------------------------------------------------
(* Initial states *)

InitEnv ==
  /\ envCreatedMap = [k \in {InstanceKey(u) : u \in UIDs} |-> FALSE]
  /\ confFiles = {}
  /\ ipsetCreated = {}
  /\ ipsetEntries = [n \in IdentitySetNames |-> {}]
  /\ vpnEnvCreated = {}

InitTimerFields ==
  /\ policy = [acl |-> "unset", qos |-> "unset"]
  /\ _aclTimer = None
  /\ timers = {}
  /\ now = 0
  /\ timerHist = [scheduled |-> <<>>, fired |-> {}, cleared |-> {}]

InitVpnFields ==
  /\ _profileId = "undefined"
  /\ chain = {}
  /\ InitTimerFields

InitIPsFields ==
  /\ _ips = [defined |-> FALSE]
  /\ registry = {}
  /\ upd = NoCalls

InitSaveFields ==
  /\ pendingSaves = <<>>
  /\ persistLog = <<>>
  /\ published = <<>>

InitCtorFields ==
  /\ instances = [k \in {InstanceKey(u) : u \in CtorUIDs} |-> 0]
  /\ subscriptions = <<>>
  /\ constructed = <<>>

InitToggleFields ==
  /\ offSets = [k \in OffSets |-> {}]
  /\ lastToggle = [k \in OffSets |-> None]

\* the primary process, with a notification channel
InitRest ==
  /\ subscriber = TRUE /\ InitSaveFields
  /\ isMain = TRUE /\ InitCtorFields
  /\ InitToggleFields

InitHistory ==
  /\ lastCall = [op |-> "none"]
  /\ opLog = <<>>
  /\ calls = 0

InitAllocFields ==
  /\ allocPc = "idle"
  /\ allocIndex = 0
  /\ allocResult = None

InitDockerFields ==
  /\ subnetFile = None
  /\ workCompose = NoCompose
  /\ serviceUp = FALSE
  /\ natRules = {}
  /\ wanRoutable = {}
  /\ startPc = "idle"
  /\ t = 0
  /\ startHist = NewStartHist(0)

InitDockerIdle == localSubnets = {} /\ InitAllocFields /\ InitDockerFields

Init ==
  InitEnv /\ InitVpnFields /\ InitIPsFields /\ InitHistory /\ InitDockerIdle /\ InitRest

NextVpn == \E state \in VpnStates, profileId \in ProfileInputs : VpnClient(state, profileId)
SpecVpn == Init /\ [][NextVpn]_vars

NextEnv ==
  \/ \E uid \in UIDs : EnsureCreateEnforcementEnv(uid)
  \/ \E uid \in UIDs : DestroyEnv(uid)
SpecEnv == Init /\ [][NextEnv]_vars

\* the identity's environment exists (createEnv ran); the redis set and the kernel
\* sets may hold what an earlier run of the process left in them
InitIPs ==
  /\ envCreatedMap = [k \in {InstanceKey(u) : u \in UIDs} |-> k = InstanceKey(Self)]
  /\ confFiles = {[path |-> DnsmasqConfigPath(Self), content |-> ConfContent(Self)]}
  /\ ipsetCreated = {EnforcementIPsetName(Self, 4), EnforcementIPsetName(Self, 6)}
  /\ \E e4 \in SUBSET {IpsetNorm(a) : a \in {x \in AddrUniverse : IsValid4(x)}},
        e6 \in SUBSET {IpsetNorm(a) : a \in {x \in AddrUniverse : IsValid6(x)}} :
       ipsetEntries = [n \in IdentitySetNames |->
                         IF n = EnforcementIPsetName(Self, 4) THEN e4
                         ELSE IF n = EnforcementIPsetName(Self, 6) THEN e6 ELSE {}]
  /\ vpnEnvCreated = {}
  /\ _ips = [defined |-> FALSE]
  /\ registry \in SUBSET {Strip(a) : a \in AddrUniverse}
  /\ upd = NoCalls
  /\ InitVpnFields /\ InitHistory /\ InitDockerIdle /\ InitRest

NextIPs == \E ips \in IPLists : UpdateIPs(ips)
SpecIPs == InitIPs /\ [][NextIPs]_vars

\* the allocator against every set of local subnets drawn from the pool
InitAlloc ==
  /\ InitEnv /\ InitVpnFields /\ InitIPsFields /\ InitHistory /\ InitRest
  /\ localSubnets \in SUBSET LocalSubnetPool
  /\ InitAllocFields /\ InitDockerFields

NextAlloc ==
  \/ GenerateRamdomNetwork
  \/ \E k \in AllDraws : AllocIterate(k)
SpecAlloc == InitAlloc /\ [][NextAlloc]_vars

\* one client on a gateway with 10.0.0.0/8, 172.16.0.0/12 and 192.168.0.0/24 attached
InitDocker ==
  /\ InitEnv /\ InitVpnFields /\ InitIPsFields /\ InitHistory /\ InitRest
  /\ localSubnets = { Subnet(10, 0, 0, 0, 8), Subnet(172, 16, 0, 0, 12),
                      Subnet(192, 168, 0, 0, 24) }
  /\ InitAllocFields /\ InitDockerFields

NextDocker ==
  \/ \E desc \in Descriptors : StartBegin(desc)
  \/ \E k \in AllDraws : AllocIterate(k)
  \/ StartResume
  \/ \E carrier \in {"1", "0", "null"} : Poll(carrier)
  \/ Delay
  \/ Stop
  \/ Destroy
SpecDocker == InitDocker /\ [][NextDocker]_vars

NextTimer ==
  \/ \E p \in AclTimerPolicies : AclTimer(p)
  \/ TimerFire
  \/ Tick
  \/ SavePolicyDone
SpecTimer == Init /\ [][NextTimer]_vars

\* setPolicy with and without a notification channel
InitPolicy ==
  /\ InitEnv /\ InitVpnFields /\ InitIPsFields /\ InitHistory /\ InitDockerIdle
  /\ subscriber \in BOOLEAN /\ InitSaveFields
  /\ isMain = TRUE /\ InitCtorFields /\ InitToggleFields

NextPolicy ==
  \/ \E name \in PolicyNames, data \in PolicyValues : SetPolicy(name, data)
  \/ SavePolicyDone
SpecPolicy == InitPolicy /\ [][NextPolicy]_vars

\* constructions in the primary process and in another one
InitCtor ==
  /\ InitEnv /\ InitVpnFields /\ InitIPsFields /\ InitHistory /\ InitDockerIdle
  /\ subscriber = TRUE /\ InitSaveFields
  /\ isMain \in BOOLEAN /\ InitCtorFields /\ InitToggleFields

NextCtor == \E uid \in CtorUIDs : Construct(uid)
SpecCtor == InitCtor /\ [][NextCtor]_vars

\* toggles whose commands may fail, from any earlier membership of the off-sets
InitToggle ==
  /\ InitEnv /\ InitVpnFields /\ InitIPsFields /\ InitHistory /\ InitDockerIdle
  /\ subscriber = TRUE /\ InitSaveFields
  /\ isMain = TRUE /\ InitCtorFields
  /\ offSets \in [OffSets -> {{}, {EnforcementIPsetName(Self, af) : af \in Families}}]
  /\ lastToggle = [k \in OffSets |-> None]

NextToggle ==
  \/ \E state \in ToggleStates, failed \in SUBSET Families : Qos(state, failed)
  \/ \E state \in ToggleStates, failed \in SUBSET Families : Acl(state, failed)
  \/ \E dnsCaching \in DnsCachingValues, failed \in SUBSET Families :
        Dnsmasq(dnsCaching, failed)
SpecToggle == InitToggle /\ [][NextToggle]_vars

\* the identity as earlier vpnClient calls left it: bound to a profile or to none, with
\* any of that profile's rules and of the neutralized rules in the chain
InitVpnFaulty ==
  /\ InitEnv /\ InitTimerFields /\ InitIPsFields /\ InitHistory /\ InitDockerIdle
  /\ InitRest
  /\ _profileId \in {"undefined"} \cup ProfileInputs
  /\ chain \in SUBSET ({NeutralizedRule(af) : af \in Families}
                        \cup (IF Falsy(_profileId) THEN {}
                              ELSE {ActiveRule(af, _profileId) : af \in Families}))

NextVpnFaulty ==
  \E state \in VpnStates, profileId \in ProfileInputs, failed \in FailureSets,
     envThrows \in BOOLEAN : VpnClientFaulty(state, profileId, failed, envThrows)
SpecVpnFaulty == InitVpnFaulty /\ [][NextVpnFaulty]_vars

\* the identity's environment exists and its sets and registry are empty; a first
\* updateIPs call whose steps succeed, then one in which a step may fail
InitIPsFaulty ==
  /\ envCreatedMap = [k \in {InstanceKey(u) : u \in UIDs} |-> k = InstanceKey(Self)]
  /\ confFiles = {[path |-> DnsmasqConfigPath(Self), content |-> ConfContent(Self)]}
  /\ ipsetCreated = {EnforcementIPsetName(Self, 4), EnforcementIPsetName(Self, 6)}
  /\ ipsetEntries = [n \in IdentitySetNames |-> {}]
  /\ vpnEnvCreated = {}
  /\ InitIPsFields /\ InitVpnFields /\ InitHistory /\ InitDockerIdle /\ InitRest

NextIPsFaulty ==
  \/ lastCall.op = "none" /\ \E ips \in IPLists : UpdateIPsFaulty(ips, {})
  \/ calls = 1 /\ \E ips \in IPLists, failed \in StepFailures : UpdateIPsFaulty(ips, failed)
SpecIPsFaulty == InitIPsFaulty /\ [][NextIPsFaulty]_vars

NextEnvFaulty ==
  \/ \E uid \in EnvUIDs, failed \in SUBSET EnvSteps : EnsureCreateFaulty(uid, failed)
  \/ \E uid \in EnvUIDs : DestroyEnv(uid)
SpecEnvFaulty == Init /\ [][NextEnvFaulty]_vars

\* updateIPs and destroyEnv on one identity whose environment exists
NextIPsDestroy ==
  \/ \E ips \in IPLists : UpdateIPs(ips)
  \/ DestroyEnv(Self)
SpecIPsDestroy == InitIPsFaulty /\ [][NextIPsDestroy]_vars

\* two updateIPs calls on a freshly created identity
NextIPsOverlap ==
  \/ \E c \in CallIds, ips \in OverlapLists : UpdBegin(c, ips)
  \/ \E c \in CallIds : UpdStep(c)
SpecIPsOverlap == InitIPsFaulty /\ [][NextIPsOverlap]_vars

\* one start call in which at most one step fails, for a profile that has no
\* subnet yet or has 192.168.1.0/24 persisted
InitDockerFaulty ==
  /\ InitEnv /\ InitVpnFields /\ InitIPsFields /\ InitHistory /\ InitRest
  /\ localSubnets = { Subnet(10, 0, 0, 0, 8), Subnet(172, 16, 0, 0, 12),
                      Subnet(192, 168, 0, 0, 24) }
  /\ InitAllocFields
  /\ subnetFile \in {None, Some([hi |-> Hi24(192, 168, 1), lo |-> 0, len |-> 24])}
  /\ workCompose = NoCompose
  /\ serviceUp = FALSE
  /\ natRules = {}
  /\ wanRoutable = {}
  /\ startPc = "idle"
  /\ t = 0
  /\ startHist = NewStartHist(0)

NextDockerFaulty ==
  \/ /\ lastCall.op = "none"
     /\ \E desc \in Descriptors, failed \in StartSteps \cup {"none"} :
          StartBeginFaulty(desc, failed)
  \/ \E k \in AllDraws : AllocIterate(k)
  \/ StartResumeFaulty
  \/ \E carrier \in {"1", "0", "null"} : PollFaulty(carrier)
  \/ Delay
SpecDockerFaulty == InitDockerFaulty /\ [][NextDockerFaulty]_vars

PollFairness == WF_vars(\E carrier \in {"1", "0", "null"} : Poll(carrier)) /\ WF_vars(Delay)
SpecDockerFair == SpecDocker /\ PollFairness

----------------------------------------------------------------------------
(* Properties of vpnClient *)

HasCmd(log, tool, op) == \E i \in 1..Len(log) : log[i].tool = tool /\ log[i].op = op

ActivePresent(c, af) == \E p \in Profiles : ActiveRule(af, p) \in c
InsertedBy(log) == {log[i].rule : i \in {j \in 1..Len(log) :
                                           log[j].tool = "iptables" /\ log[j].op = "-A"}}

\* C1: after every vpnClient call, in each IP family at most one of the identity's
\* active rule and its neutralized rule is in the chain.
C1_RuleExclusivity ==
  \A af \in Families : ~(ActivePresent(chain, af) /\ NeutralizedRule(af) \in chain)

\* a call with state null on the profile an earlier call bound has replaced the rule
C1_Witness ==
  /\ lastCall.op = "vpnClient" /\ lastCall.state = "null"
  /\ lastCall.prev = lastCall.profileId /\ lastCall.profileId \in Profiles
  /\ calls >= 2
  /\ \A af \in Families : NeutralizedRule(af) \in chain /\ ~ActivePresent(chain, af)

\* C2: a vpnClient call whose profileId differs from the previously applied non-empty
\* profile id leaves no rule of the earlier calls behind: no rule references the old
\* profile, and every rule in the chain is one this call inserted. From P1/true, the
\* call (true, P2) ends with exactly the active rules of P2 in the chain.
C2_NoStaleRuleAfterSwitch ==
  [][ /\ (/\ lastCall'.op = "vpnClient"
          /\ ~Falsy(_profileId)
          /\ lastCall'.profileId # _profileId)
         => /\ \A r \in chain' : r.jmp # RouteJmp(_profileId)
            /\ chain' \subseteq InsertedBy(opLog')
      /\ \A p1 \in Profiles : \A p2 \in Profiles \ {p1} :
           (/\ _profileId = p1
            /\ ActiveRule(4, p1) \in chain /\ ActiveRule(6, p1) \in chain
            /\ lastCall' = [op |-> "vpnClient", state |-> "true", profileId |-> p2,
                            prev |-> p1])
           => chain' = {ActiveRule(4, p2), ActiveRule(6, p2)}
    ]_vars

\* the identity moved from P1 with the neutralized rule to P2 with the active rule
C2_Witness ==
  /\ lastCall.op = "vpnClient" /\ lastCall.prev = "P1" /\ lastCall.profileId = "P2"
  /\ lastCall.state = "true"
  /\ HasCmd(opLog, "iptables", "-D")
  /\ chain = {ActiveRule(4, "P2"), ActiveRule(6, "P2")}

----------------------------------------------------------------------------
(* Properties of ensureCreateEnforcementEnv *)

\* C3: a second ensureCreateEnforcementEnv call for the same (namespace, uid) right
\* after a first leaves the kernel sets and the config files as the first call left
\* them, and no call made once the key is marked created issues an ipset create.
C3_EnsureCreateIdempotent ==
  [][ /\ (/\ lastCall.op = "ensureCreateEnforcementEnv"
          /\ lastCall' = lastCall)
         => /\ ipsetCreated' = ipsetCreated /\ ipsetEntries' = ipsetEntries
            /\ confFiles' = confFiles
            /\ envCreatedMap' = envCreatedMap
            /\ ~HasCmd(opLog', "ipset", "create")
      /\ (/\ lastCall'.op = "ensureCreateEnforcementEnv"
          /\ envCreatedMap[InstanceKey(lastCall'.uid)])
         => ~HasCmd(opLog', "ipset", "create")
    ]_vars

\* the state after a repeated call: the file is written, the sets exist, and the
\* call issued the file write and the restart request only
C3_Witness ==
  /\ lastCall = [op |-> "ensureCreateEnforcementEnv", uid |-> Self]
  /\ calls >= 2
  /\ Len(opLog) = 2 /\ HasCmd(opLog, "fs", "writeFile")
  /\ envCreatedMap[InstanceKey(Self)]
  /\ {EnforcementIPsetName(Self, 4), EnforcementIPsetName(Self, 6)} \subseteq ipsetCreated
  /\ [path |-> DnsmasqConfigPath(Self), content |-> ConfContent(Self)] \in confFiles

----------------------------------------------------------------------------
(* Properties of updateIPs *)

Count(a, s) == Cardinality({i \in 1..Len(s) : s[i] = a})
SameMultiset(s1, s2) == \A a \in AddrUniverse : Count(a, s1) = Count(a, s2)
HostSuffixStripped(ip) == IF ip[2] = "/32" \/ ip[2] = "/128" THEN <<ip[1], "">> ELSE ip

\* C4: after updateIPs(A) then updateIPs(B) the registry holds B with /32 and /128
\* suffixes stripped, without duplicates, and the v4 and v6 sets hold exactly the valid
\* IPv4 and the valid IPv6 addresses of B.
C4_IPsConverge ==
  lastCall.op = "updateIPs" =>
    LET B == Range(lastCall.ips)
    IN /\ registry = {HostSuffixStripped(ip) : ip \in B}
       /\ ipsetEntries[EnforcementIPsetName(Self, 4)]
            = {IpsetNorm(ip) : ip \in {x \in B : IsValid4(x)}}
       /\ ipsetEntries[EnforcementIPsetName(Self, 6)]
            = {IpsetNorm(ip) : ip \in {x \in B : IsValid6(x)}}

\* a second call that removed addresses from the registry and added others, with
\* addresses of both families and a dropped invalid one
C4_Witness ==
  /\ lastCall.op = "updateIPs" /\ calls >= 2
  /\ HasCmd(opLog, "redis", "srem") /\ HasCmd(opLog, "redis", "sadd")
  /\ lastCall.ips = << <<"fd00::1", "/128">>, <<"10.0.0.1", "/32">> >>
  /\ registry = { <<"fd00::1", "">>, <<"10.0.0.1", "">> }

\* C10 as stated: a new list equal to the applied one as a set is a no-op.
C10_NoOpOnEqualSets ==
  [][ (/\ lastCall'.op = "updateIPs"
       /\ _ips.defined
       /\ Range(lastCall'.ips) = Range(_ips.list))
      => /\ opLog' = <<>>
         /\ registry' = registry /\ ipsetEntries' = ipsetEntries
         /\ Range(_ips'.list) = Range(_ips.list)
    ]_vars

\* C10 (amended): updateIPs is a no-op when the new list has the same addresses with
\* the same multiplicities as the applied list, in any order: no flush, no add, no
\* registry change, and the applied list keeps its elements.
C10_NoOpOnEqualMultisets ==
  [][ (/\ lastCall'.op = "updateIPs"
       /\ _ips.defined
       /\ SameMultiset(lastCall'.ips, _ips.list))
      => /\ opLog' = <<>>
         /\ registry' = registry /\ ipsetEntries' = ipsetEntries
         /\ SameMultiset(_ips'.list, _ips.list)
    ]_vars

\* a call with the applied addresses in another order did nothing
C10_Witness ==
  /\ lastCall.op = "updateIPs" /\ calls >= 2
  /\ _ips.defined /\ Len(_ips.list) = 2
  /\ lastCall.ips # _ips.list /\ SameMultiset(lastCall.ips, _ips.list)
  /\ opLog = <<>>

----------------------------------------------------------------------------
(* Properties of the subnet allocator and of start *)

\* the /24 and the subnet share an address
Intersects24(net, s) ==
  IF s.len <= 24
    THEN s.hi <= net.hi /\ net.hi < s.hi + Pow2(24 - s.len)
    ELSE s.hi = net.hi

\* C5: the /24 that _generateRamdomNetwork returns intersects no locally attached
\* subnet.
C5_AllocatedSubnetIsFree ==
  allocPc = "returned" => \A s \in localSubnets : ~Intersects24(allocResult.v, s)

\* C6: while a subnet is persisted for the profile and no destroy runs, the persisted
\* value does not change, the allocator does not run, and every rewritten descriptor
\* carries the persisted subnet.
C6_SubnetChosenOnce ==
  [][ (subnetFile.present /\ lastCall'.op # "destroy")
      => /\ subnetFile' = subnetFile
         /\ allocPc' # "loop"
         /\ (workCompose'.exists /\ workCompose'.rewritten)
              => workCompose'.ipam = subnetFile.v
    ]_vars

\* a later start rewrote the descriptor with the subnet an earlier start persisted
C6_Witness ==
  /\ calls >= 2 /\ lastCall.op = "start"
  /\ startHist.allocRuns = 0
  /\ subnetFile.present
  /\ workCompose.exists /\ workCompose.rewritten /\ workCompose.ipam = subnetFile.v

\* C7: the poll loop of a start call reads the carrier at most 30 times and sleeps at
\* most 30 times, and it ends, also when the carrier never reads "1".
C7_PollLoopBounded ==
  /\ [](startHist.reads <= PollBudget /\ startHist.delays <= PollBudget /\ t <= PollBudget)
  /\ (startPc \in {"poll", "delay"}) ~> (startPc = "done")

\* a start call that ended after 30 reads and 30 delays without seeing the carrier
C7_Witness ==
  /\ startPc = "done" /\ ~startHist.carrierSeen
  /\ startHist.reads = PollBudget /\ startHist.delays = PollBudget
  /\ startHist.routeAdds = 0

\* C8 as stated: a finished start call injected the route exactly when it saw the
\* carrier.
C8_RouteIffCarrier ==
  /\ startHist.routeAdds <= 1
  /\ (startPc = "done" /\ lastCall.op = "start")
       => (startHist.routeAdds = 1 <=> startHist.carrierSeen)

\* C8 (amended): a finished start call injected the host route of the container
\* address exactly when it saw the carrier within the 30 attempts and the subnet file
\* gave a remote address; it injects at most once.
C8_RouteIffCarrierAndRemoteIP ==
  /\ startHist.routeAdds <= 1
  /\ startHist.reads <= PollBudget
  /\ (startPc = "done" /\ lastCall.op = "start")
       => /\ startHist.routeAdds = 1 <=> (startHist.carrierSeen /\ subnetFile.present)
          /\ startHist.routeAdds = 1
               => [dest |-> GetRemoteIP(subnetFile).v, dev |-> InterfaceName] \in wanRoutable

\* the carrier came up on a later attempt and the route of the .2 address was added
C8_Witness ==
  /\ startPc = "done" /\ lastCall.op = "start"
  /\ startHist.carrierSeen /\ startHist.reads > 1
  /\ startHist.routeAdds = 1
  /\ subnetFile.present
  /\ [dest |-> <<subnetFile.v.hi, 2>>, dev |-> InterfaceName] \in wanRoutable

----------------------------------------------------------------------------
(* Properties of aclTimer *)

\* C9: an aclTimer call with a valid deadline clears the timeout still pending from an
\* earlier call, a cleared timeout never fires, and the timeout that fires is the most
\* recently scheduled one, which sets policy.acl to the state of the call that
\* scheduled it.
C9_OnlyLatestTimerFires ==
  [][ /\ timerHist'.fired \cap timerHist'.cleared = {}
      /\ Len(timerHist'.scheduled) > Len(timerHist.scheduled)
           => /\ {tm.id : tm \in timers} \subseteq timerHist'.cleared
              /\ {tm.id : tm \in timers'} = {Len(timerHist'.scheduled)}
      /\ timerHist'.fired # timerHist.fired
           => LET id == Len(timerHist.scheduled)
              IN /\ timerHist'.fired = timerHist.fired \cup {id}
                 /\ _aclTimer = Some(id)
                 /\ policy'.acl = timerHist.scheduled[id].nextState
                 /\ lastCall.op = "aclTimer" /\ lastCall.valid
                 /\ policy'.acl = lastCall.policy.state
    ]_vars

\* aclTimer(block, 1) then aclTimer(allow, 2): the first was cleared, the second fired
C9_Witness ==
  /\ Len(timerHist.scheduled) = 2
  /\ timerHist.scheduled[1] = [nextState |-> "block", at |-> 1]
  /\ timerHist.scheduled[2] = [nextState |-> "allow", at |-> 2]
  /\ timerHist.cleared = {1} /\ timerHist.fired = {2}
  /\ policy.acl = "allow"

----------------------------------------------------------------------------
(* Properties of setPolicy *)

\* C11: setPolicy(name, value) sets policy[name] to value and hands the whole policy
\* object to savePolicy; the change event (uniqueId, name, value) is published only
\* when that save has completed, exactly once per call, and never when the identity
\* has no subscriber, in which case the value is still set and persisted.
C11_SetPersistPublish ==
  /\ [](/\ published = (IF subscriber
                          THEN [i \in 1..Len(persistLog) |->
                                  ChangeEvent(Self, persistLog[i].name, persistLog[i].data)]
                          ELSE <<>>)
        /\ \A i \in 1..Len(persistLog) :
             /\ DOMAIN persistLog[i].snapshot = PolicyNames
             /\ persistLog[i].snapshot[persistLog[i].name] = persistLog[i].data)
  /\ [][ /\ Len(pendingSaves') > Len(pendingSaves)
              => LET c == pendingSaves'[Len(pendingSaves')]
                 IN /\ c.name = lastCall'.name /\ c.data = lastCall'.data
                    /\ policy' = [policy EXCEPT ![c.name] = c.data]
                    /\ c.snapshot = policy'
                    /\ published' = published /\ persistLog' = persistLog
         /\ published' # published
              => /\ pendingSaves # <<>>
                 /\ persistLog' = Append(persistLog, Head(pendingSaves))
                 /\ published' = Append(published,
                                        ChangeEvent(Self, Head(pendingSaves).name,
                                                    Head(pendingSaves).data))
       ]_vars

\* two calls on different fields were persisted and one event was published for each
C11_Witness ==
  /\ subscriber /\ pendingSaves = <<>>
  /\ Len(persistLog) = 2 /\ persistLog[1].name # persistLog[2].name
  /\ published = << ChangeEvent(Self, persistLog[1].name, persistLog[1].data),
                    ChangeEvent(Self, persistLog[2].name, persistLog[2].data) >>
  /\ policy = persistLog[2].snapshot

----------------------------------------------------------------------------
(* Properties of the constructor *)

FirstWithKey(i) ==
  CHOOSE j \in 1..i : /\ constructed[j].key = constructed[i].key
                      /\ \A k \in 1..(j - 1) : constructed[k].key # constructed[i].key

SubscriptionsOf(uid) == {i \in 1..Len(subscriptions) : subscriptions[i].id = uid}

\* C12: every construction returns the object the first construction with the same
\* (namespace, uniqueId) key created, and each key gets at most one IdentityPolicy:Changed
\* subscription: exactly one, made by that first object, in the primary process when the
\* id resolves, none in another process or when the id does not resolve.
C12_SingletonPerKey ==
  /\ \A i \in 1..Len(constructed) :
       constructed[i].returned = constructed[FirstWithKey(i)].this
  /\ \A uid \in CtorUIDs :
       LET made == \E i \in 1..Len(constructed) : constructed[i].key = InstanceKey(uid)
       IN /\ Cardinality(SubscriptionsOf(uid))
               = (IF made /\ isMain /\ ~Falsy(uid) THEN 1 ELSE 0)
          /\ \A i \in SubscriptionsOf(uid) :
               subscriptions[i].by = instances[InstanceKey(uid)]

\* a key constructed twice with another key in between: the third construction
\* returned the first object and one subscription exists for the key
C12_Witness ==
  /\ isMain /\ Len(constructed) = 3
  /\ constructed[1].key = InstanceKey("uidA") /\ constructed[2].key = InstanceKey("uidB")
  /\ constructed[3].key = InstanceKey("uidA")
  /\ constructed[3].this = 3 /\ constructed[3].returned = 1
  /\ Cardinality(SubscriptionsOf("uidA")) = 1

----------------------------------------------------------------------------
(* Properties of qos, acl and _dnsmasq *)

SelfSets == {EnforcementIPsetName(Self, af) : af \in Families}

\* C14: for each of QOS_OFF, ACL_OFF and NO_DNS_BOOST, when the commands of the most
\* recent toggle of that kind succeeded, both sets of the identity are members exactly
\* when that toggle was not "on" and both are absent exactly when it was "on"; every
\* toggle attempts the v4 and the v6 command, and the one that does not fail takes
\* effect whatever the other did.
C14_ToggleMembership ==
  /\ [](\A k \in OffSets :
          (lastToggle[k].present /\ lastToggle[k].v.failed = {})
            => /\ SelfSets \subseteq offSets[k] <=> lastToggle[k].v.state # "true"
               /\ SelfSets \cap offSets[k] = {} <=> lastToggle[k].v.state = "true")
  /\ [][ \A k \in OffSets :
           lastToggle'[k] # lastToggle[k] \/ offSets'[k] # offSets[k]
             => /\ Len(opLog') = 2
                /\ \A af \in Families :
                     /\ \E i \in 1..2 : opLog'[i] = ToggleCmd(k, lastCall'.state, af)
                     /\ af \notin lastCall'.failed
                          => (EnforcementIPsetName(Self, af) \in offSets'[k]
                                <=> lastCall'.state # "true")
       ]_vars

\* qos was switched off and on again, and then acl off with a failing v4 command:
\* QOS_OFF holds neither set, ACL_OFF holds the v6 set
C14_Witness ==
  /\ lastToggle["QOS_OFF"] = Some([state |-> "true", failed |-> {}])
  /\ offSets["QOS_OFF"] = {}
  /\ lastToggle["ACL_OFF"] = Some([state |-> "false", failed |-> {4}])
  /\ offSets["ACL_OFF"] = {EnforcementIPsetName(Self, 6)}
  /\ lastToggle["NO_DNS_BOOST"] = Some([state |-> "null", failed |-> {}])
  /\ offSets["NO_DNS_BOOST"] = SelfSets

----------------------------------------------------------------------------
(* Properties of vpnClient when commands fail *)

\* C13: a vpnClient call returns normally whatever fails, and a failing insert or
\* delete command does not keep the other rule commands of the call from being issued:
\* the call issues every command of the migration guard and, unless the profile id is
\* empty or creating the environment threw, every command of its state, and each
\* command that does not fail takes effect.
C13_FailuresDoNotAbort ==
  [][ lastCall'.op = "vpnClient"
        => LET mig == MigrationCmds(_profileId, lastCall'.profileId)
               st == StateCmds(lastCall'.state, lastCall'.profileId)
               all == IF Falsy(lastCall'.profileId) \/ lastCall'.envThrows
                        THEN mig ELSE mig \o st
           IN /\ lastCall'.outcome = "returned"
              /\ RuleCmdsOnly(opLog') = all
              /\ \A i \in 1..Len(all) :
                   (/\ i \notin lastCall'.failed
                    /\ \A j \in (i + 1)..Len(all) : all[j].rule # all[i].rule)
                     => (all[i].rule \in chain' <=> all[i].op = "-A")
    ]_vars

\* the first deletion of the migration guard failed: the old profile's v4 active rule
\* stayed, and the seven other commands were issued and took effect
C13_Witness ==
  /\ lastCall.op = "vpnClient" /\ lastCall.failed = {1} /\ ~lastCall.envThrows
  /\ lastCall.prev = "P1" /\ lastCall.profileId = "P2" /\ lastCall.state = "true"
  /\ Len(RuleCmdsOnly(opLog)) = MaxRuleCmds
  /\ chain = {ActiveRule(4, "P1"), ActiveRule(4, "P2"), ActiveRule(6, "P2")}

----------------------------------------------------------------------------
(* Properties of the state branches of vpnClient *)

IsActiveCmd(c, op) ==
  /\ c.tool = "iptables" /\ c.op = op
  /\ \E af \in Families, p \in Profiles : c.rule = ActiveRule(af, p)

IsNeutralizedCmd(c, op) ==
  /\ c.tool = "iptables" /\ c.op = op
  /\ \E af \in Families : c.rule = NeutralizedRule(af)

IsCall(call, state) ==
  call.op = "vpnClient" /\ call.state = state /\ call.profileId \in Profiles

Switches(prev, call) == ~Falsy(prev) /\ call.profileId # prev

LastFour(log) == SubSeq(log, Len(log) - 3, Len(log))

\* C15 as stated: a call with state true ends with the active rule present and the
\* neutralized rule absent in both families, and every insertion of an active rule
\* comes before every removal of a neutralized rule in the call.
C15_ActiveBeforeEveryNeutralizedRemoval ==
  [][ IsCall(lastCall', "true")
        => /\ \A af \in Families :
                /\ ActiveRule(af, lastCall'.profileId) \in chain'
                /\ NeutralizedRule(af) \notin chain'
           /\ \A i \in 1..Len(opLog'), j \in 1..Len(opLog') :
                (IsActiveCmd(opLog'[i], "-A") /\ IsNeutralizedCmd(opLog'[j], "-D")) => i < j
    ]_vars

\* C15: a call with state true ends with the active rule present and the neutralized
\* rule absent in both families; its last four commands insert the active rules and
\* then remove the neutralized rules, and a removal of a neutralized rule precedes the
\* insertions only in a call that switches profiles, where the migration guard issues it.
C15_TrueInsertsThenCleans ==
  [][ IsCall(lastCall', "true")
        => /\ \A af \in Families :
                /\ ActiveRule(af, lastCall'.profileId) \in chain'
                /\ NeutralizedRule(af) \notin chain'
           /\ LastFour(opLog')
                = << IptCmd("-A", ActiveRule(4, lastCall'.profileId)),
                     IptCmd("-A", ActiveRule(6, lastCall'.profileId)),
                     IptCmd("-D", NeutralizedRule(4)), IptCmd("-D", NeutralizedRule(6)) >>
           /\ (\E i \in 1..Len(opLog'), j \in 1..Len(opLog') :
                 /\ IsActiveCmd(opLog'[i], "-A") /\ IsNeutralizedCmd(opLog'[j], "-D")
                 /\ j < i)
                <=> Switches(_profileId, lastCall')
    ]_vars

\* a second call on P1, with state true: its four commands left the active rules
C15_Witness ==
  /\ IsCall(lastCall, "true") /\ lastCall.prev = "P1" /\ lastCall.profileId = "P1"
  /\ calls >= 2
  /\ chain = {ActiveRule(4, "P1"), ActiveRule(6, "P1")}
  /\ Len(RuleCmdsOnly(opLog)) = 4

\* C16: a call with state null ends with no active rule and with the neutralized rule
\* present in both families, and every removal of an active rule comes before every
\* insertion of a neutralized rule in the call.
C16_NullRemovesThenNeutralizes ==
  [][ IsCall(lastCall', "null")
        => /\ \A af \in Families :
                /\ ~ActivePresent(chain', af)
                /\ NeutralizedRule(af) \in chain'
           /\ LastFour(opLog')
                = << IptCmd("-D", ActiveRule(4, lastCall'.profileId)),
                     IptCmd("-D", ActiveRule(6, lastCall'.profileId)),
                     IptCmd("-A", NeutralizedRule(4)), IptCmd("-A", NeutralizedRule(6)) >>
           /\ \A i \in 1..Len(opLog'), j \in 1..Len(opLog') :
                (IsActiveCmd(opLog'[i], "-D") /\ IsNeutralizedCmd(opLog'[j], "-A")) => i < j
    ]_vars

\* P2, bound after P1, was switched to the override
C16_Witness ==
  /\ IsCall(lastCall, "null") /\ lastCall.prev = "P1" /\ lastCall.profileId = "P2"
  /\ chain = {NeutralizedRule(4), NeutralizedRule(6)}
  /\ Len(RuleCmdsOnly(opLog)) = MaxRuleCmds

\* C17: a call with state false ends with an empty chain: neither the active nor the
\* neutralized rule of the identity is left in either family, and the call inserts
\* nothing.
C17_FalseLeavesNoRule ==
  [][ IsCall(lastCall', "false")
        => /\ chain' = {}
           /\ \A i \in 1..Len(opLog') : opLog'[i].tool = "iptables" => opLog'[i].op = "-D"
           /\ \A r \in chain : IptCmd("-D", r) \in Range(opLog')
    ]_vars

\* state false on the profile an earlier call had bound
C17_Witness ==
  /\ IsCall(lastCall, "false") /\ lastCall.prev = "P3" /\ lastCall.profileId = "P3"
  /\ calls >= 2 /\ chain = {}
  /\ RuleCmdsOnly(opLog)
       = << IptCmd("-D", ActiveRule(4, "P3")), IptCmd("-D", ActiveRule(6, "P3")),
            IptCmd("-D", NeutralizedRule(4)), IptCmd("-D", NeutralizedRule(6)) >>

\* C18: in a call that switches profile ids the first four commands are the deletions
\* of the old profile's active rules and of the neutralized rules, and every insertion
\* comes after them.
C18_OldRemovedBeforeNewInserted ==
  [][ (lastCall'.op = "vpnClient" /\ Switches(_profileId, lastCall'))
        => /\ Len(opLog') >= 4
           /\ SubSeq(opLog', 1, 4)
                = << IptCmd("-D", ActiveRule(4, _profileId)),
                     IptCmd("-D", ActiveRule(6, _profileId)),
                     IptCmd("-D", NeutralizedRule(4)), IptCmd("-D", NeutralizedRule(6)) >>
           /\ \A j \in 1..Len(opLog') :
                (opLog'[j].tool = "iptables" /\ opLog'[j].op = "-A") => j > 4
    ]_vars

\* the identity moved from P2 to P3 with state null
C18_Witness ==
  /\ IsCall(lastCall, "null") /\ lastCall.prev = "P2" /\ lastCall.profileId = "P3"
  /\ opLog[1] = IptCmd("-D", ActiveRule(4, "P2"))
  /\ opLog[Len(opLog)] = IptCmd("-A", NeutralizedRule(6))
  /\ _profileId = "P3"

\* C19: a call with an empty profileId stores that value as the profile id, inserts no
\* rule and creates no environment; the commands it issues are the deletions of the
\* migration guard, and none when no profile was bound before.
C19_EmptyProfileReturnsEarly ==
  [][ (lastCall'.op = "vpnClient" /\ Falsy(lastCall'.profileId))
        => /\ _profileId' = lastCall'.profileId
           /\ \A i \in 1..Len(opLog') : opLog'[i].tool = "iptables" /\ opLog'[i].op = "-D"
           /\ Falsy(_profileId) => opLog' = <<>>
           /\ ~Falsy(_profileId)
                => Range(opLog') = {IptCmd("-D", ActiveRule(af, _profileId)) : af \in Families}
                                     \cup {IptCmd("-D", NeutralizedRule(af)) : af \in Families}
           /\ chain' \subseteq chain
           /\ UNCHANGED <<envCreatedMap, confFiles, ipsetCreated, vpnEnvCreated>>
    ]_vars

\* an empty profile id after P1 was active: the rules of P1 are gone, nothing was created
C19_Witness ==
  /\ lastCall.op = "vpnClient" /\ lastCall.profileId = "" /\ lastCall.prev = "P1"
  /\ _profileId = "" /\ chain = {}
  /\ Len(opLog) = 4
  /\ vpnEnvCreated = {"P1"}

----------------------------------------------------------------------------
(* Properties of the flush of updateIPs *)

\* C20: an updateIPs call whose addresses differ from the applied ones flushes the v4
\* and the v6 set before it adds a member, and after the call neither set holds an
\* address that is not in the new list.
C20_FlushBeforePopulate ==
  [][ lastCall'.op = "updateIPs"
        => /\ (~_ips.defined \/ Range(lastCall'.ips) # Range(_ips.list)) => opLog' # <<>>
           /\ opLog' # <<>>
                => /\ opLog'[1] = FlushCmd(Self, 4) /\ opLog'[2] = FlushCmd(Self, 6)
                   /\ \A i \in 1..Len(opLog') :
                        opLog'[i].op \in {"add", "batchOp"} => i > 2
                   /\ \A af \in Families :
                        ipsetEntries'[EnforcementIPsetName(Self, af)]
                          \subseteq {IpsetNorm(ip) : ip \in Range(lastCall'.ips)}
    ]_vars

\* the second call replaced 10.0.0.1 and fd00::1 by 10.0.0.2
C20_Witness ==
  /\ lastCall.op = "updateIPs" /\ lastCall.ips = << <<"10.0.0.2", "">> >>
  /\ calls >= 2 /\ opLog # <<>>
  /\ HasCmd(opLog, "redis", "srem")
  /\ ipsetEntries[EnforcementIPsetName(Self, 4)] = {<<"10.0.0.2", "">>}
  /\ ipsetEntries[EnforcementIPsetName(Self, 6)] = {}

----------------------------------------------------------------------------
(* Properties of updateIPs when a step fails *)

\* C21: every updateIPs call that finds the addresses changed ends with the new list
\* as the last applied one, also when a flush, the batched add or a registry read, remove
\* or add failed.
C21_LastAppliedAlwaysUpdated ==
  [][ (lastCall'.op = "updateIPs" /\ lastCall'.changed)
        => _ips' = [defined |-> TRUE, list |-> lastCall'.ips] ]_vars

----------------------------------------------------------------------------
(* Properties of aclTimer calls *)

\* a step of SpecTimer that is an aclTimer call: no timeout fires, no time passes and
\* no save completes
IsAclTimerStep ==
  /\ lastCall'.op = "aclTimer"
  /\ now' = now /\ timerHist'.fired = timerHist.fired /\ pendingSaves' = pendingSaves
  /\ published' = published

TimeNotInFuture(p) == IsNaN(p.time) \/ p.time.v <= now

\* C22 as stated: an aclTimer call whose time is absent, not numeric or not in the
\* future schedules nothing, changes no policy field and leaves the pending timeouts
\* and the timer handle as they were.
C22_InvalidTimeIsNoOp ==
  [][ (IsAclTimerStep /\ TimeNotInFuture(lastCall'.policy))
        => /\ timerHist'.scheduled = timerHist.scheduled
           /\ policy' = policy
           /\ _aclTimer' = _aclTimer
           /\ timers' = timers
    ]_vars

\* C22: an aclTimer call whose time is absent, not numeric or not in the future
\* schedules nothing, changes no policy field and keeps the handle, but it clears the
\* timeout still pending from the previous call.
C22_InvalidTimeOnlyCancels ==
  [][ (IsAclTimerStep /\ TimeNotInFuture(lastCall'.policy))
        => /\ timerHist'.scheduled = timerHist.scheduled
           /\ policy' = policy /\ pendingSaves' = pendingSaves
           /\ _aclTimer' = _aclTimer
           /\ timers' = {}
           /\ timerHist'.cleared = timerHist.cleared \cup {tm.id : tm \in timers}
    ]_vars

\* a call without a time came while the timeout of an earlier call was pending:
\* that timeout is cleared and has not fired, and acl was never set
C22_Witness ==
  /\ lastCall.op = "aclTimer" /\ ~lastCall.policy.time.present
  /\ Len(timerHist.scheduled) = 1 /\ timerHist.cleared = {1} /\ timerHist.fired = {}
  /\ timers = {} /\ _aclTimer = Some(1)
  /\ now >= timerHist.scheduled[1].at
  /\ policy.acl = "unset"

\* C29: at most one timeout of aclTimer is pending at any time, and every aclTimer
\* call, valid or not, removes the timeout that was pending before it.
C29_AtMostOnePending ==
  /\ [](Cardinality(timers) <= 1)
  /\ [][ IsAclTimerStep => timers \cap timers' = {} ]_vars

\* the second valid call replaced the pending timeout of the first
C29_Witness ==
  /\ Len(timerHist.scheduled) = 2 /\ timerHist.fired = {}
  /\ timers = {[id |-> 2, nextState |-> timerHist.scheduled[2].nextState,
                at |-> timerHist.scheduled[2].at]}
  /\ timerHist.cleared = {1}
  /\ now < timerHist.scheduled[1].at

----------------------------------------------------------------------------
(* Properties of ensureCreateEnforcementEnv when a step fails *)

\* C23: ensureCreateEnforcementEnv returns normally whatever fails; every call attempts
\* the write of the config file and requests the restart of the DNS service, a first
\* call attempts both creates, and each step that does not fail takes effect.
C23_EnsureCreateNeverThrows ==
  [][ lastCall'.op = "ensureCreateEnforcementEnv"
        => LET uid == lastCall'.uid
               failed == lastCall'.failed
           IN /\ lastCall'.outcome = "returned"
              /\ Len(opLog') >= 2
              /\ opLog'[1] = [tool |-> "fs", op |-> "writeFile", path |-> DnsmasqConfigPath(uid)]
              /\ opLog'[2] = [tool |-> "dnsmasq", op |-> "scheduleRestart"]
              /\ "writeFile" \notin failed
                   => [path |-> DnsmasqConfigPath(uid), content |-> ConfContent(uid)]
                        \in confFiles'
              /\ ~envCreatedMap[InstanceKey(uid)]
                   => /\ SubSeq(opLog', 3, Len(opLog')) = <<CreateCmd(uid, 4), CreateCmd(uid, 6)>>
                      /\ "create4" \notin failed => EnforcementIPsetName(uid, 4) \in ipsetCreated'
                      /\ "create6" \notin failed => EnforcementIPsetName(uid, 6) \in ipsetCreated'
    ]_vars

\* a first call in which the write and both creates failed: all four steps were made
C23_Witness ==
  /\ lastCall.op = "ensureCreateEnforcementEnv" /\ lastCall.uid = Self
  /\ lastCall.failed = EnvSteps /\ lastCall.outcome = "returned"
  /\ opLog = << [tool |-> "fs", op |-> "writeFile", path |-> DnsmasqConfigPath(Self)],
                [tool |-> "dnsmasq", op |-> "scheduleRestart"],
                CreateCmd(Self, 4), CreateCmd(Self, 6) >>
  /\ confFiles = {} /\ ipsetCreated = {}

\* C28: the first ensureCreateEnforcementEnv call for a key marks it created also when
\* a create failed, no operation clears the mark, destroyEnv included, and no call
\* made once the key is marked issues an ipset create.
C28_CreatedMarkIsPermanent ==
  [][ /\ \A u \in UIDs : envCreatedMap[InstanceKey(u)] => envCreatedMap'[InstanceKey(u)]
      /\ lastCall'.op = "ensureCreateEnforcementEnv"
           => /\ envCreatedMap'[InstanceKey(lastCall'.uid)]
              /\ envCreatedMap[InstanceKey(lastCall'.uid)] => ~HasCmd(opLog', "ipset", "create")
    ]_vars

\* the v4 create of the first call failed; a later call, in which nothing failed,
\* issued no create, and the v4 set still does not exist
C28_Witness ==
  /\ lastCall.op = "ensureCreateEnforcementEnv" /\ lastCall.uid = Self
  /\ lastCall.failed = {} /\ calls >= 2
  /\ envCreatedMap[InstanceKey(Self)]
  /\ Len(opLog) = 2
  /\ ipsetCreated = {EnforcementIPsetName(Self, 6)}

----------------------------------------------------------------------------
(* Properties of the allocator's loop *)

PrivateRanges ==
  {Subnet(10, 0, 0, 0, 8), Subnet(172, 16, 0, 0, 12), Subnet(192, 168, 0, 0, 16)}

\* C26: the loop of _generateRamdomNetwork ends only by returning a candidate whose
\* base address is in no local subnet; on a collision it goes on with the next of
\* 10.0.0.0/8, 172.16.0.0/12, 192.168.0.0/16, wrapping; and when the three ranges
\* are all locally attached it never returns.
C26_AllocatorOnlyExit ==
  /\ [](PrivateRanges \subseteq localSubnets => allocPc # "returned")
  /\ [][ /\ (allocPc = "loop" /\ allocPc' # "loop")
              => /\ allocPc' = "returned" /\ allocResult'.present
                 /\ ~InMySubnets4(<<allocResult'.v.hi, allocResult'.v.lo>>)
                 /\ allocResult'.v.hi \div Pow2(IpRangeRandomMap[(allocIndex % 3) + 1].randomBits)
                      = IpRangeRandomMap[(allocIndex % 3) + 1].start
                          \div Pow2(IpRangeRandomMap[(allocIndex % 3) + 1].randomBits)
         /\ (allocPc = "loop" /\ allocPc' = "loop" /\ allocIndex' # allocIndex)
              => allocIndex' % 3 = ((allocIndex % 3) + 1) % 3
       ]_vars

\* with the three ranges attached, the loop collided in each of them and goes on
C26_Witness ==
  /\ PrivateRanges \subseteq localSubnets
  /\ allocPc = "loop" /\ allocIndex = 3 /\ ~allocResult.present

----------------------------------------------------------------------------
(* Properties of updateIPs after destroyEnv *)

\* C27: destroyEnv leaves the last applied list as it is, so an updateIPs call that
\* follows it with the same addresses issues no command and the flushed sets stay empty.
C27_DestroyKeepsLastApplied ==
  [][ /\ lastCall'.op = "destroyEnv" => _ips' = _ips
      /\ (/\ lastCall.op = "destroyEnv" /\ lastCall'.op = "updateIPs"
          /\ _ips.defined /\ Sort(lastCall'.ips) = Sort(_ips.list))
           => /\ opLog' = <<>>
              /\ \A af \in Families : ipsetEntries'[EnforcementIPsetName(Self, af)] = {}
              /\ registry' = registry
    ]_vars

\* 10.0.0.1 was applied, the sets were flushed, and the same list was given again:
\* the registry holds the address, the v4 set does not
C27_Witness ==
  /\ lastCall = [op |-> "updateIPs", ips |-> << <<"10.0.0.1", "">> >>]
  /\ opLog = <<>>
  /\ _ips = [defined |-> TRUE, list |-> << <<"10.0.0.1", "">> >>]
  /\ registry = {<<"10.0.0.1", "">>}
  /\ ipsetEntries[EnforcementIPsetName(Self, 4)] = {}

----------------------------------------------------------------------------
(* Properties of start when a step fails *)

\* C24: a start call in which one step fails is not aborted by it: the call does not
\* throw, it still asks for the service to be started, and it still enters the poll
\* loop.
C24_StartToleratesEveryStep ==
  (lastCall.op = "start" /\ startPc = "done")
    => /\ ~lastCall.threw
       /\ HasCmd(opLog, "step", "systemctlStart")
       /\ startHist.reads >= 1

----------------------------------------------------------------------------
(* Properties of overlapping updateIPs calls *)

\* the members of the identity's two family sets
FamilyMembers ==
  ipsetEntries[EnforcementIPsetName(Self, 4)] \cup ipsetEntries[EnforcementIPsetName(Self, 6)]

\* what the sets hold when exactly the valid addresses of the list were added
AppliedMembers(ips) == {IpsetNorm(ip) : ip \in {x \in Range(ips) : IsValid4(x) \/ IsValid6(x)}}

BothDone == \A c \in CallIds : upd[c].pc = "done"

\* C25: updateIPs calls on one identity are not serialized: while a call is suspended
\* at one of its awaits, another call on the same identity can begin. (When no call
\* began while another was suspended, the family sets hold exactly the valid addresses
\* of the last-applied list once both calls are complete.)
C25_OverlappingCallsNotSerialized ==
  /\ \A c \in CallIds, d \in CallIds :
       (c # d /\ InFlight(c) /\ upd[d].pc = "idle")
         => ENABLED (\E ips \in OverlapLists : UpdBegin(d, ips))
  /\ (BothDone /\ \A c \in CallIds : ~upd[c].overlapped)
       => FamilyMembers = AppliedMembers(_ips.list)

\* both calls are complete, one began while the other was suspended, and a family set
\* holds an address that is not in the final last-applied list
C25_Witness ==
  /\ BothDone
  /\ \E c \in CallIds : upd[c].overlapped
  /\ \E a \in FamilyMembers : a \notin AppliedMembers(_ips.list)

====
